---------------------------- MODULE Spec2Model ----------------------------
(***************************************************************************)
(* A state-machine model of the humpty HTTP/WebSocket server core:         *)
(*   - the thread pool with its panic-recovery supervisor                  *)
(*     (src/src/thread/pool.rs),                                           *)
(*   - the WebSocket application broker                                    *)
(*     (src/src/extras/websocket_app.rs),                                  *)
(*   - the request head's header mutators (src/src/http/request.rs),       *)
(*   - the connection driver, connector and filter chain, whose code lives *)
(*     outside the files at hand and is modelled from the design           *)
(*     description.                                                        *)
(* Every subsystem has its own variables, initial predicate, next-state    *)
(* relation and specification; the variables of the other subsystems stay  *)
(* parked at their initial value.                                          *)
(***************************************************************************)
EXTENDS Integers, Sequences, FiniteSets, TLC

VARIABLES
  \* ---- thread pool (pool.rs) ----
  started,        \* ThreadPool.started
  tx,             \* ThreadPool.tx: "init" (sender of a dead channel), "open", "dropped"
  queue,          \* messages buffered in the task channel
  rxHolder,       \* the worker holding the Mutex<Receiver<Message>>, or NoWorker
  workers,        \* ThreadPool.threads: per id, the OS thread's position and task
  recoveryChan,   \* messages buffered in the recovery channel (Option<usize>)
  supervisor,     \* the recovery thread: "none", "running", "exited"
  recoveryTaken,  \* ThreadPool.recovery_thread has been take()n
  poolPc,         \* position of the thread owning the pool
  dropIdx,        \* index of the worker Drop joins next
  nextTask,       \* id of the next task to enqueue
  executed,       \* ids of the tasks that ran to completion
  panicked,       \* ids of the tasks that panicked
  respawns,       \* number of replacement workers spawned so far
  \* ---- WebSocket app (websocket_app.rs) ----
  hookAlive,      \* the server still holds the connect hook (Sender<WebsocketContext>)
  wsIncoming,     \* State.incoming_streams: upgraded sessions not yet accepted
  appSignal,      \* State.shutdown: "none", "sent" or "taken"
  accPc,          \* the exec (acceptor) thread: "loop", "joining", "done", "failed"
  accThreads,     \* the join handles the acceptor keeps
  registry,       \* State.send_streams: the senders, by session
  swriter,        \* per session, exec()'s position: "none", "connect", "loop", "joining", "done"
  sreader,        \* per session, the read thread: "none", "reading", "done"
  outq,           \* per session, the outgoing-message channel
  sock,           \* per session, the frames written to the socket by ws_sender.send
  lastPing,       \* the session the latest heartbeat ping was written to
  netIn,          \* per session, the frames the peer sent and the reader has not read
  bcastq,         \* the broadcast channel (outgoing_broadcasts)
  bpc,            \* the broadcast thread: "recv", "remove", "done"
  removeIdx,      \* the broadcast thread's remove_idx
  bshutdown,      \* a () is buffered in the sync_channel to the broadcast thread
  nextSession,    \* id of the next session to connect
  nextMsg,        \* id of the next message the application creates
  framesSent,     \* number of frames the peers have sent
  handled,        \* per session, the messages passed to message_handler
  disconnects,    \* per session, the number of disconnect_handler calls
  fanout,         \* per broadcast message, the sessions it was enqueued to
  sent,           \* per application thread: the sends it made on retained handles
  enq,            \* per session: the texts its channel accepted, in order
  late,           \* the messages handed to a handle of a session that had ended
  wfail,          \* per session: a write to its socket has failed
  \* ---- server, connectors and connection drivers ----
  serverPc,       \* the caller of server.shutdown(): "idle", "marking", "returned"
  connectors,     \* per connector: accept loop position, shutdown mark, listening socket, grace time waited
  conns,          \* per accepted connection: the driver's state machine and its stream
  nextConn,       \* id of the next connection to accept
  \* ---- request head (http/request.rs) ----
  head,           \* RequestHead: path, headers, accept
  lastCall,       \* the latest call of a header mutator and its result
  \* ---- router and filter chain ----
  router,         \* the router as built: filters and the route
  ctx,            \* the request being routed: phase, head as read, trace
  \* ---- handle_connection on one stream ----
  mock,           \* the stream: the request it holds and what was written to it
  hc,             \* handle_connection: position, parsed head, result, endpoint calls
  \* ---- id counter (util.rs) ----
  ctr,            \* the statics TIME, COUNTER, the mutex and its u128, values returned
  callers,        \* per thread: position in counter::next() and its locals
  \* ---- static-file lookup (route.rs) ----
  found,          \* the latest call of try_find_path: the request path and what it returned
  \* ---- reading the bytes of a request head (http/request.rs) ----
  rd,             \* RequestHead::new at the byte level: the lines on the wire, the line buffer, the bytes kept
  \* ---- response under construction and its bytes ----
  resp,           \* a Response: its headers, the calls that built it, the lines it was serialized to
  \* ---- reading a WebSocket message ----
  mstream,        \* the WebSocket stream and the Message::from_stream call on it
  \* ---- parsing one header line ----
  hl,             \* the header line given to the header loop of RequestHead::new and what it made of it
  \* ---- validating the status line ----
  sl,             \* the bytes read for the status line and what RequestHead::new made of them
  \* ---- the mutex of the sender registry ----
  lk,             \* the send_streams mutex, the two threads that take it, and the registry behind it
  \* ---- RequestHead::new: the header loop ----
  hloop           \* the header loop of one RequestHead::new call and the stream it reads


poolVars == <<started, tx, queue, rxHolder, workers, recoveryChan, supervisor,
              recoveryTaken, poolPc, dropIdx, nextTask, executed, panicked, respawns>>

wsVars == <<hookAlive, wsIncoming, appSignal, accPc, accThreads, registry, swriter,
            sreader, outq, sock, lastPing, netIn, bcastq, bpc, removeIdx,
            bshutdown, nextSession, nextMsg, framesSent, handled, disconnects, fanout,
            sent, enq, late, wfail>>

httpVars == <<serverPc, connectors, conns, nextConn>>

headVars == <<head, lastCall>>

routerVars == <<router, ctx>>

hcVars == <<mock, hc>>

ctrVars == <<ctr, callers>>

findVars == <<found>>

rdVars == <<rd>>

respVars == <<resp>>

msgVars == <<mstream>>

hlineVars == <<hl>>

slineVars == <<sl>>

rlockVars == <<lk>>

headLoopVars == <<hloop>>

vars == <<poolVars, wsVars, httpVars, headVars, routerVars, hcVars, ctrVars, findVars, rdVars, respVars, msgVars, hlineVars, slineVars, rlockVars, headLoopVars>>

\* what a step of one subsystem leaves alone: the state of the others
poolRest == <<wsVars, httpVars, headVars, routerVars, hcVars, ctrVars, findVars, rdVars, respVars, msgVars, hlineVars, slineVars, rlockVars, headLoopVars>>
wsRest == <<poolVars, httpVars, headVars, routerVars, hcVars, ctrVars, findVars, rdVars, respVars, msgVars, hlineVars, slineVars, rlockVars, headLoopVars>>
httpRest == <<poolVars, wsVars, headVars, routerVars, hcVars, ctrVars, findVars, rdVars, respVars, msgVars, hlineVars, slineVars, rlockVars, headLoopVars>>
headRest == <<poolVars, wsVars, httpVars, routerVars, hcVars, ctrVars, findVars, rdVars, respVars, msgVars, hlineVars, slineVars, rlockVars, headLoopVars>>
routerRest == <<poolVars, wsVars, httpVars, hcVars, ctrVars, findVars, rdVars, respVars, msgVars, hlineVars, slineVars, rlockVars, headLoopVars>>
hcRest == <<poolVars, wsVars, httpVars, headVars, routerVars, ctrVars, findVars, rdVars, respVars, msgVars, hlineVars, slineVars, rlockVars, headLoopVars>>
ctrRest == <<poolVars, wsVars, httpVars, headVars, routerVars, hcVars, findVars, rdVars, respVars, msgVars, hlineVars, slineVars, rlockVars, headLoopVars>>
findRest == <<poolVars, wsVars, httpVars, headVars, routerVars, hcVars, ctrVars, rdVars, respVars, msgVars, hlineVars, slineVars, rlockVars, headLoopVars>>
rdRest == <<poolVars, wsVars, httpVars, headVars, routerVars, hcVars, ctrVars, findVars, respVars, msgVars, hlineVars, slineVars, rlockVars, headLoopVars>>
respRest == <<poolVars, wsVars, httpVars, headVars, routerVars, hcVars, ctrVars, findVars, rdVars, msgVars, hlineVars, slineVars, rlockVars, headLoopVars>>
msgRest == <<poolVars, wsVars, httpVars, headVars, routerVars, hcVars, ctrVars, findVars, rdVars, respVars, hlineVars, slineVars, rlockVars, headLoopVars>>
hlineRest == <<poolVars, wsVars, httpVars, headVars, routerVars, hcVars, ctrVars, findVars, rdVars, respVars, msgVars, slineVars, rlockVars, headLoopVars>>
slineRest == <<poolVars, wsVars, httpVars, headVars, routerVars, hcVars, ctrVars, findVars, rdVars, respVars, msgVars, hlineVars, rlockVars, headLoopVars>>
rlockRest == <<poolVars, wsVars, httpVars, headVars, routerVars, hcVars, ctrVars, findVars, rdVars, respVars, msgVars, hlineVars, slineVars, headLoopVars>>
headLoopRest == <<poolVars, wsVars, httpVars, headVars, routerVars, hcVars, ctrVars, findVars, rdVars, respVars, msgVars, hlineVars, slineVars, rlockVars>>

-----------------------------------------------------------------------------
(***************************************************************************)
(* Thread pool                                                             *)
(***************************************************************************)

\* ThreadPool::new(thread_count)
ThreadCount == 2
\* number of tasks the owner enqueues at most
MaxTasks == 3

\* No worker: the receiver's mutex is free.
NoWorker == -1
NoTask == [id |-> 0, kind |-> "none"]
\* for id in 0..self.thread_count
WorkerIds == 0..(ThreadCount - 1)
TaskKinds == {"ok", "panic"}

\* The shutdown notice a worker sends on the recovery channel (Option::None).
ShutdownNotice == [kind |-> "None", id |-> NoWorker]
\* The notice the drop guard sends while unwinding (Option::Some(id)).
PanicNotice(id) == [kind |-> "Some", id |-> id]

\* A send on the recovery channel: dropped when the receiver is gone.
RecoverySend(chan, msg) == IF supervisor = "running" THEN Append(chan, msg) ELSE chan

Live(i) == workers[i].st \in {"locking", "recv", "running"}
Gone(i) == workers[i].st \in {"exited", "panicked"}

PoolInit ==
  /\ started = FALSE
  /\ tx = "init"
  /\ queue = <<>>
  /\ rxHolder = NoWorker
  /\ workers = [i \in WorkerIds |-> [st |-> "none", task |-> NoTask]]
  /\ recoveryChan = <<>>
  /\ supervisor = "none"
  /\ recoveryTaken = FALSE
  /\ poolPc = "idle"
  /\ dropIdx = 0
  /\ nextTask = 1
  /\ executed = {}
  /\ panicked = {}
  /\ respawns = 0

\* ThreadPool::start: both channels are created, every worker and the
\* recovery thread are spawned.
Start ==
  /\ poolPc = "idle"
  /\ tx = "init"
  /\ started' = TRUE
  /\ tx' = "open"
  /\ workers' = [i \in WorkerIds |-> [st |-> "locking", task |-> NoTask]]
  /\ supervisor' = "running"
  /\ UNCHANGED <<poolRest, queue, rxHolder, recoveryChan, recoveryTaken, poolPc, dropIdx,
                 nextTask, executed, panicked, respawns>>

\* ThreadPool::execute: assert!(self.started), then the boxed task is sent.
Execute(kind) ==
  /\ poolPc = "idle"
  /\ started
  /\ tx = "open"
  /\ nextTask <= MaxTasks
  /\ queue' = Append(queue, [id |-> nextTask, kind |-> kind])
  /\ nextTask' = nextTask + 1
  /\ UNCHANGED <<poolRest, started, tx, rxHolder, workers, recoveryChan, supervisor,
                 recoveryTaken, poolPc, dropIdx, executed, panicked, respawns>>

\* Worker loop: rx.lock()
WorkerLock(i) ==
  /\ workers[i].st = "locking"
  /\ rxHolder = NoWorker
  /\ rxHolder' = i
  /\ workers' = [workers EXCEPT ![i].st = "recv"]
  /\ UNCHANGED <<poolRest, started, tx, queue, recoveryChan, supervisor, recoveryTaken,
                 poolPc, dropIdx, nextTask, executed, panicked, respawns>>

\* A receive that hands out the oldest message and leaves it in the channel.
WorkerRecvPeek(i) ==
  /\ workers[i].st = "recv"
  /\ queue # <<>>
  /\ workers' = [workers EXCEPT ![i] = [st |-> "running", task |-> Head(queue)]]
  /\ rxHolder' = NoWorker
  /\ UNCHANGED <<poolRest, started, tx, queue, recoveryChan, supervisor, recoveryTaken,
                 poolPc, dropIdx, nextTask, executed, panicked, respawns>>

\* Worker loop: res.recv() returns Ok(message); the guard is released at the
\* end of the statement and the task starts.
WorkerRecv(i) ==
  /\ workers[i].st = "recv"
  /\ queue # <<>>
  /\ workers' = [workers EXCEPT ![i] = [st |-> "running", task |-> Head(queue)]]
  /\ queue' = Tail(queue)
  /\ rxHolder' = NoWorker
  /\ UNCHANGED <<poolRest, started, tx, recoveryChan, supervisor, recoveryTaken, poolPc,
                 dropIdx, nextTask, executed, panicked, respawns>>

\* A worker leaving its loop without the shutdown notice.
WorkerRecvClosedSilent(i) ==
  /\ workers[i].st = "recv"
  /\ queue = <<>>
  /\ tx = "dropped"
  /\ rxHolder' = NoWorker
  /\ workers' = [workers EXCEPT ![i] = [st |-> "exited", task |-> NoTask]]
  /\ UNCHANGED <<poolRest, started, tx, queue, recoveryChan, supervisor, recoveryTaken,
                 poolPc, dropIdx, nextTask, executed, panicked, respawns>>

\* Worker loop: res.recv() returns Err (every sender dropped, nothing
\* buffered): break, send None to the recovery thread, drop the marker.
WorkerRecvClosed(i) ==
  /\ workers[i].st = "recv"
  /\ queue = <<>>
  /\ tx = "dropped"
  /\ rxHolder' = NoWorker
  /\ recoveryChan' = RecoverySend(recoveryChan, ShutdownNotice)
  /\ workers' = [workers EXCEPT ![i] = [st |-> "exited", task |-> NoTask]]
  /\ UNCHANGED <<poolRest, started, tx, queue, supervisor, recoveryTaken, poolPc, dropIdx,
                 nextTask, executed, panicked, respawns>>

\* (message.task)() returns: back to the top of the loop.
WorkerTaskDone(i) ==
  /\ workers[i].st = "running"
  /\ workers[i].task.kind = "ok"
  /\ executed' = executed \cup {workers[i].task.id}
  /\ workers' = [workers EXCEPT ![i] = [st |-> "locking", task |-> NoTask]]
  /\ UNCHANGED <<poolRest, started, tx, queue, rxHolder, recoveryChan, supervisor,
                 recoveryTaken, poolPc, dropIdx, nextTask, panicked, respawns>>

\* A task panicking in a worker that holds no drop guard: the thread dies and
\* nobody is told.
WorkerTaskPanicUnguarded(i) ==
  /\ workers[i].st = "running"
  /\ workers[i].task.kind = "panic"
  /\ panicked' = panicked \cup {workers[i].task.id}
  /\ workers' = [workers EXCEPT ![i] = [st |-> "panicked", task |-> NoTask]]
  /\ UNCHANGED <<poolRest, started, tx, queue, rxHolder, recoveryChan, supervisor,
                 recoveryTaken, poolPc, dropIdx, nextTask, executed, respawns>>

\* (message.task)() panics: the thread unwinds, panic_marker (PanicMarker(id,
\* panic_tx)) is dropped while panicking and sends Some(id).
WorkerTaskPanic(i) ==
  /\ workers[i].st = "running"
  /\ workers[i].task.kind = "panic"
  /\ panicked' = panicked \cup {workers[i].task.id}
  /\ recoveryChan' = RecoverySend(recoveryChan, PanicNotice(i))
  /\ workers' = [workers EXCEPT ![i] = [st |-> "panicked", task |-> NoTask]]
  /\ UNCHANGED <<poolRest, started, tx, queue, rxHolder, supervisor, recoveryTaken, poolPc,
                 dropIdx, nextTask, executed, respawns>>

\* Recovery thread, on Some(id): joins the dead thread and spawns
\* Thread::new(id, rx, tx) in its place.
SupervisorRespawn ==
  /\ supervisor = "running"
  /\ recoveryChan # <<>>
  /\ Head(recoveryChan).kind = "Some"
  /\ workers' = [workers EXCEPT ![Head(recoveryChan).id] =
                   [st |-> "locking", task |-> NoTask]]
  /\ respawns' = respawns + 1
  /\ recoveryChan' = Tail(recoveryChan)
  /\ UNCHANGED <<poolRest, started, tx, queue, rxHolder, supervisor, recoveryTaken, poolPc,
                 dropIdx, nextTask, executed, panicked>>

\* Recovery thread, on None: it ends; its receiver is dropped with whatever
\* is still buffered.
SupervisorShutdown ==
  /\ supervisor = "running"
  /\ recoveryChan # <<>>
  /\ Head(recoveryChan).kind = "None"
  /\ supervisor' = "exited"
  /\ recoveryChan' = <<>>
  /\ UNCHANGED <<poolRest, started, tx, queue, rxHolder, workers, recoveryTaken, poolPc,
                 dropIdx, nextTask, executed, panicked, respawns>>

\* ThreadPool::stop, up to the join: self.tx = None, recovery_thread.take().
\* Without a recovery thread the call runs through.
StopBegin ==
  /\ poolPc = "idle"
  /\ tx' = "dropped"
  /\ recoveryTaken' = TRUE
  /\ IF supervisor # "none" /\ ~recoveryTaken
       THEN poolPc' = "stopJoin" /\ started' = started
       ELSE poolPc' = "idle" /\ started' = FALSE
  /\ UNCHANGED <<poolRest, queue, rxHolder, workers, recoveryChan, supervisor, dropIdx,
                 nextTask, executed, panicked, respawns>>

\* ThreadPool::stop: rt.0.unwrap().join() returns, self.started = false.
StopJoined ==
  /\ poolPc = "stopJoin"
  /\ supervisor = "exited"
  /\ started' = FALSE
  /\ poolPc' = "idle"
  /\ UNCHANGED <<poolRest, tx, queue, rxHolder, workers, recoveryChan, supervisor,
                 recoveryTaken, dropIdx, nextTask, executed, panicked, respawns>>

\* Drop for ThreadPool, entry: recovery_thread.take(); the fields (tx among
\* them) are dropped only after drop() has returned.
DropBegin ==
  /\ poolPc = "idle"
  /\ recoveryTaken' = TRUE
  /\ poolPc' = IF supervisor # "none" /\ ~recoveryTaken
                 THEN "dropJoinSup" ELSE "dropJoinWorkers"
  /\ UNCHANGED <<poolRest, started, tx, queue, rxHolder, workers, recoveryChan, supervisor,
                 dropIdx, nextTask, executed, panicked, respawns>>

\* Drop, the joins: first thread.join().unwrap() on the recovery thread (when
\* it was taken here), then os_thread.take() and join() of every worker in
\* turn. join() of a thread that panicked is Err and unwrap() panics in the
\* destructor.
DropJoin ==
  /\ poolPc \in {"dropJoinSup", "dropJoinWorkers"}
  /\ IF poolPc = "dropJoinSup"
       THEN /\ supervisor = "exited"
            /\ poolPc' = "dropJoinWorkers"
            /\ dropIdx' = dropIdx
       ELSE /\ dropIdx < ThreadCount
            /\ workers[dropIdx].st \in {"none", "exited", "panicked"}
            /\ IF workers[dropIdx].st = "panicked"
                 THEN poolPc' = "dropPanicked" /\ dropIdx' = dropIdx
                 ELSE poolPc' = poolPc /\ dropIdx' = dropIdx + 1
  /\ UNCHANGED <<poolRest, started, tx, queue, rxHolder, workers, recoveryChan, supervisor,
                 recoveryTaken, nextTask, executed, panicked, respawns>>

\* Drop returns (or unwinds): the fields are dropped, the sender among them.
DropReturn ==
  /\ \/ poolPc = "dropJoinWorkers" /\ dropIdx >= ThreadCount /\ poolPc' = "dropped"
     \/ poolPc = "dropPanicked" /\ poolPc' = "dropUnwound"
  /\ tx' = "dropped"
  /\ UNCHANGED <<poolRest, started, queue, rxHolder, workers, recoveryChan, supervisor,
                 recoveryTaken, dropIdx, nextTask, executed, panicked, respawns>>

WorkerStep(i) ==
  \/ WorkerLock(i)
  \/ WorkerRecv(i)
  \/ WorkerRecvClosed(i)
  \/ WorkerTaskDone(i)
  \/ WorkerTaskPanic(i)

SupervisorStep == SupervisorRespawn \/ SupervisorShutdown

OwnerWait == StopJoined \/ DropJoin \/ DropReturn

PoolNext ==
  \/ Start
  \/ \E kind \in TaskKinds : Execute(kind)
  \/ \E i \in WorkerIds : WorkerStep(i)
  \/ SupervisorStep
  \/ StopBegin
  \/ DropBegin
  \/ OwnerWait

-----------------------------------------------------------------------------
(***************************************************************************)
(* WebSocket app broker                                                    *)
(***************************************************************************)

\* number of sessions that connect at most
MaxSessions == 2
\* number of messages the application creates at most
MaxMsgs == 1
\* number of frames the peers send at most
MaxFrames == 1

Sessions == 1..MaxSessions
NoSession == 0
\* let mut remove_idx = None
NoIdx == -1

\* WebsocketMessage values: an application message is a text that names the
\* session whose handler created it (NoSession for a BroadcastSender); Ping
\* and Pong are the bare variants.
TextMsg(id, from) == [t |-> "text", id |-> id, from |-> from]
PongMsg == [t |-> "pong", id |-> 0, from |-> NoSession]
\* OutgoingMessage::Message and OutgoingMessage::Broadcast
OutMessage(m) == [kind |-> "Message", msg |-> m]
OutBroadcast(m) == [kind |-> "Broadcast", msg |-> m]
\* what a peer can put on the wire; "err" stands for a failing read
FrameKinds == {"text", "ping", "pong", "close", "err"}

Range(seq) == {seq[k] : k \in 1..Len(seq)}
Count(seq, x) == Cardinality({k \in 1..Len(seq) : seq[k] = x})
\* Vec::remove(idx), idx counted from 0
RemoveAt(seq, idx) == [k \in 1..(Len(seq) - 1) |-> IF k <= idx THEN seq[k] ELSE seq[k + 1]]

\* The receiver of a session's outgoing channel lives as long as exec() runs.
RxAlive(s) == swriter[s] \in {"connect", "loop", "joining"}
\* application threads that keep handles and send on them
SendThreads == {"t1", "t2"}
\* number of sends they make at most, all together
MaxSends == 2
\* sends made so far
SendsMade == sent["t1"] + sent["t2"]

\* the texts a session's channel took, in the order of the sends
Accepted(h, s, m) == IF RxAlive(s) THEN [h EXCEPT ![s] = Append(h[s], m)] ELSE h

\* exec() has returned for session s: the session has ended
Ended(s) == swriter[s] = "done"

\* the messages handed to handles of ended sessions, after one more call
Late(s, m) == IF Ended(s) THEN late \cup {m} ELSE late

\* a channel whose send still succeeds when the receiver is gone
ChanSendAlways(q, s, item) == [q EXCEPT ![s] = Append(q[s], item)]
\* a channel that hands out the latest message first
ChanSendFront(q, s, item) == IF RxAlive(s) THEN [q EXCEPT ![s] = <<item>> \o q[s]] ELSE q
\* Sender::send on a session's channel: Err, and nothing enqueued, once the
\* receiver is dropped.
ChanSend(q, s, item) == IF RxAlive(s) THEN [q EXCEPT ![s] = Append(q[s], item)] ELSE q

WsInit ==
  /\ hookAlive = TRUE
  /\ wsIncoming = <<>>
  /\ appSignal = "none"
  /\ accPc = "loop"
  /\ accThreads = {}
  /\ registry = <<>>
  /\ swriter = [s \in Sessions |-> "none"]
  /\ sreader = [s \in Sessions |-> "none"]
  /\ outq = [s \in Sessions |-> <<>>]
  /\ sock = [s \in Sessions |-> <<>>]
  /\ lastPing = NoSession
  /\ netIn = [s \in Sessions |-> <<>>]
  /\ bcastq = <<>>
  /\ bpc = "recv"
  /\ removeIdx = NoIdx
  /\ bshutdown = FALSE
  /\ nextSession = 1
  /\ nextMsg = 1
  /\ framesSent = 0
  /\ handled = [s \in Sessions |-> <<>>]
  /\ disconnects = [s \in Sessions |-> 0]
  /\ fanout = [m \in {} |-> {}]
  /\ sent = [th \in SendThreads |-> 0]
  /\ enq = [s \in Sessions |-> <<>>]
  /\ late = {}
  /\ wfail = [s \in Sessions |-> FALSE]

\* websocket_app_handler: the server hands an upgraded connection to the app.
ClientConnect ==
  /\ hookAlive
  /\ nextSession <= MaxSessions
  /\ wsIncoming' = Append(wsIncoming, nextSession)
  /\ nextSession' = nextSession + 1
  /\ UNCHANGED <<wsRest, wfail, late, sent, enq, hookAlive, appSignal, accPc, accThreads, registry, swriter, sreader,
                 outq, sock, lastPing, netIn, bcastq, bpc, removeIdx,
                 bshutdown, nextMsg, framesSent, handled, disconnects, fanout>>

\* The server is gone: the connect hook is dropped.
ServerGone ==
  /\ hookAlive
  /\ hookAlive' = FALSE
  /\ UNCHANGED <<wsRest, wfail, late, sent, enq, wsIncoming, appSignal, accPc, accThreads, registry, swriter, sreader,
                 outq, sock, lastPing, netIn, bcastq, bpc, removeIdx,
                 bshutdown, nextSession, nextMsg, framesSent, handled, disconnects,
                 fanout>>

\* The application sends () on the channel registered by with_shutdown.
AppShutdownSignal ==
  /\ appSignal = "none"
  /\ appSignal' = "sent"
  /\ UNCHANGED <<wsRest, wfail, late, sent, enq, hookAlive, wsIncoming, accPc, accThreads, registry, swriter, sreader,
                 outq, sock, lastPing, netIn, bcastq, bpc, removeIdx,
                 bshutdown, nextSession, nextMsg, framesSent, handled, disconnects,
                 fanout>>

\* A peer puts a frame on the wire (or its connection starts to fail reads).
ClientSend(s, kind) ==
  /\ swriter[s] # "none"
  /\ sreader[s] # "done"
  /\ framesSent < MaxFrames
  /\ framesSent' = framesSent + 1
  /\ netIn' = [netIn EXCEPT ![s] = Append(netIn[s], [t |-> kind, id |-> framesSent + 1])]
  /\ UNCHANGED <<wsRest, wfail, late, sent, enq, hookAlive, wsIncoming, appSignal, accPc, accThreads, registry, swriter,
                 sreader, outq, sock, lastPing, bcastq, bpc, removeIdx,
                 bshutdown, nextSession, nextMsg, handled, disconnects, fanout>>

\* Exec thread, end of its loop (the shutdown signal was taken, or the
\* incoming queue is disconnected): shutdown_tx.send(()) wakes the broadcast
\* thread; when that thread is gone already the send fails and run() reports
\* AppError::BroadcastThread without joining anything.
AcceptorLeave ==
  IF bpc = "done"
    THEN accPc' = "failed" /\ bshutdown' = bshutdown
    ELSE accPc' = "joining" /\ bshutdown' = TRUE

\* Exec thread: sd.try_recv().is_ok() at the top of the loop: break.
AcceptorShutdown ==
  /\ accPc = "loop"
  /\ appSignal = "sent"
  /\ appSignal' = "taken"
  /\ AcceptorLeave
  /\ UNCHANGED <<wsRest, wfail, late, sent, enq, hookAlive, wsIncoming, accThreads, registry, swriter, sreader, outq,
                 sock, lastPing, netIn, bcastq, bpc, removeIdx, nextSession,
                 nextMsg, framesSent, handled, disconnects, fanout>>

\* Exec thread: incoming_streams.recv_timeout is Err(Disconnected): break.
AcceptorDisconnected ==
  /\ accPc = "loop"
  /\ wsIncoming = <<>>
  /\ ~hookAlive
  /\ AcceptorLeave
  /\ UNCHANGED <<wsRest, wfail, late, sent, enq, hookAlive, wsIncoming, appSignal, accThreads, registry, swriter,
                 sreader, outq, sock, lastPing, netIn, bcastq, bpc, removeIdx,
                 nextSession, nextMsg, framesSent, handled, disconnects, fanout>>

\* `send_streams.lock().unwrap().push(message_sender.clone())`: the new
\* sender goes to the end of the registry
PushFront(reg, s) == <<s>> \o reg

Push(reg, s) == Append(reg, s)

\* Exec thread: a new stream is received; its channel is created, the sender
\* is pushed to send_streams, exec() is spawned, finished handles are dropped.
AcceptorAccept ==
  /\ accPc = "loop"
  /\ wsIncoming # <<>>
  /\ LET s == Head(wsIncoming) IN
       /\ registry' = Push(registry, s)
       /\ swriter' = [swriter EXCEPT ![s] = "connect"]
       /\ accThreads' = {t \in accThreads \cup {s} : t = s \/ swriter[t] # "done"}
  /\ wsIncoming' = Tail(wsIncoming)
  /\ UNCHANGED <<wsRest, wfail, late, sent, enq, hookAlive, appSignal, accPc, sreader, outq, sock, lastPing,
                 netIn, bcastq, bpc, removeIdx, bshutdown, nextSession, nextMsg,
                 framesSent, handled, disconnects, fanout>>

\* Exec thread: every kept handle is joined, the thread returns Ok(()).
AcceptorJoin ==
  /\ accPc = "joining"
  /\ \A t \in accThreads : swriter[t] = "done"
  /\ accPc' = "done"
  /\ UNCHANGED <<wsRest, wfail, late, sent, enq, hookAlive, wsIncoming, appSignal, accThreads, registry, swriter,
                 sreader, outq, sock, lastPing, netIn, bcastq, bpc, removeIdx,
                 bshutdown, nextSession, nextMsg, framesSent, handled, disconnects,
                 fanout>>

\* Broadcast thread: shutdown_rx.try_recv().is_ok(): break.
BroadcastShutdown ==
  /\ bpc = "recv"
  /\ bshutdown
  /\ bpc' = "done"
  /\ bshutdown' = FALSE
  /\ UNCHANGED <<wsRest, wfail, late, sent, enq, hookAlive, wsIncoming, appSignal, accPc, accThreads, registry, swriter,
                 sreader, outq, sock, lastPing, netIn, bcastq, removeIdx,
                 nextSession, nextMsg, framesSent, handled, disconnects, fanout>>

\* A fan-out that gives up at the first sender whose send fails.
FanoutTargetsUntilFailure(reg) ==
  {reg[k] : k \in {j \in 1..Len(reg) : \A i \in 1..j : RxAlive(reg[i])}}

\* The senders of the registry whose send succeeds during a fan-out: the loop
\* visits every entry, failed or not.
FanoutTargets(reg) == {reg[k] : k \in {j \in 1..Len(reg) : RxAlive(reg[j])}}

\* remove_idx after the loop: the index (from 0) of the last sender whose send
\* failed, None when all succeeded.
LastFailed(reg) ==
  LET failed == {j \in 1..Len(reg) : ~RxAlive(reg[j])} IN
    IF failed = {} THEN NoIdx
    ELSE (CHOOSE j \in failed : \A i \in failed : i <= j) - 1

\* a receiver that hands out the newest broadcast first
RecvBroadcastNewest(q) == [msg |-> q[Len(q)], rest |-> SubSeq(q, 1, Len(q) - 1)]
\* outgoing_broadcasts.recv_timeout is Ok(message): the oldest broadcast
\* buffered in the channel
RecvBroadcast(q) == [msg |-> Head(q), rest |-> Tail(q)]

\* Broadcast thread: a broadcast is received; under the registry lock it is
\* sent as OutgoingMessage::Message(message.clone()) to every sender.
BroadcastFanout ==
  /\ bpc = "recv"
  /\ bcastq # <<>>
  /\ LET m == RecvBroadcast(bcastq).msg
         to == FanoutTargets(registry) IN
       /\ outq' = [s \in Sessions |->
                     IF s \in to THEN Append(outq[s], OutMessage(m)) ELSE outq[s]]
       /\ fanout' = [k \in (DOMAIN fanout) \cup {m} |-> IF k = m THEN to ELSE fanout[k]]
  /\ bcastq' = RecvBroadcast(bcastq).rest
  /\ removeIdx' = LastFailed(registry)
  /\ bpc' = IF LastFailed(registry) = NoIdx THEN "recv" ELSE "remove"
  /\ UNCHANGED <<wsRest, wfail, late, sent, enq, hookAlive, wsIncoming, appSignal, accPc, accThreads, registry, swriter,
                 sreader, sock, lastPing, netIn, bshutdown, nextSession,
                 nextMsg, framesSent, handled, disconnects>>

\* Broadcast thread: recv_timeout is Err(Timeout), a heartbeat interval went
\* by without a broadcast: the arm is empty, remove_idx is None, the loop
\* starts over.
BroadcastTimeout ==
  /\ bpc = "recv"
  /\ bcastq = <<>>
  /\ ~bshutdown
  /\ UNCHANGED vars

\* Broadcast thread: the registry is locked again and the entry at remove_idx
\* is removed if the registry is still that long.
BroadcastRemove ==
  /\ bpc = "remove"
  /\ registry' = IF Len(registry) > removeIdx THEN RemoveAt(registry, removeIdx)
                 ELSE registry
  /\ removeIdx' = NoIdx
  /\ bpc' = "recv"
  /\ UNCHANGED <<wsRest, wfail, late, sent, enq, hookAlive, wsIncoming, appSignal, accPc, accThreads, swriter, sreader,
                 outq, sock, lastPing, netIn, bcastq, bshutdown, nextSession,
                 nextMsg, framesSent, handled, disconnects, fanout>>

\* exec(): the connect handler runs, the read thread is spawned and the write
\* loop is entered.
ConnectHandler(s) ==
  /\ swriter[s] = "connect"
  /\ swriter' = [swriter EXCEPT ![s] = "loop"]
  /\ sreader' = [sreader EXCEPT ![s] = "reading"]
  /\ UNCHANGED <<wsRest, wfail, late, sent, enq, hookAlive, wsIncoming, appSignal, accPc, accThreads, registry, outq,
                 sock, lastPing, netIn, bcastq, bpc, removeIdx, bshutdown,
                 nextSession, nextMsg, framesSent, handled, disconnects, fanout>>

\* Read thread: read_message_timeout returns a frame (or fails).
\*   Text/Binary: message_handler is called;  Ping: a Pong is queued for the
\*   writer, the thread ends if that fails;  Pong: nothing;  Closed: the thread
\*   ends;  Err: disconnect_handler is called and the thread ends.
ReaderRead(s) ==
  /\ sreader[s] = "reading"
  /\ netIn[s] # <<>>
  /\ LET f == Head(netIn[s]) IN
       /\ handled' = IF f.t = "text" THEN [handled EXCEPT ![s] = Append(handled[s], f.id)]
                     ELSE handled
       /\ outq' = IF f.t = "ping" THEN ChanSend(outq, s, OutMessage(PongMsg)) ELSE outq
       /\ disconnects' = IF f.t = "err" THEN [disconnects EXCEPT ![s] = disconnects[s] + 1]
                         ELSE disconnects
       /\ sreader' = IF f.t \in {"close", "err"} \/ (f.t = "ping" /\ ~RxAlive(s))
                       THEN [sreader EXCEPT ![s] = "done"] ELSE sreader
  /\ netIn' = [netIn EXCEPT ![s] = Tail(netIn[s])]
  /\ UNCHANGED <<wsRest, wfail, late, sent, enq, hookAlive, wsIncoming, appSignal, accPc, accThreads, registry, swriter,
                 sock, lastPing, bcastq, bpc, removeIdx, bshutdown,
                 nextSession, nextMsg, framesSent, fanout>>

\* Read thread: nothing arrived within the heartbeat interval:
\* ReadMessageTimeoutResult::Timeout, the thread ends.
ReaderTimeout(s) ==
  /\ sreader[s] = "reading"
  /\ netIn[s] = <<>>
  /\ sreader' = [sreader EXCEPT ![s] = "done"]
  /\ UNCHANGED <<wsRest, wfail, late, sent, enq, hookAlive, wsIncoming, appSignal, accPc, accThreads, registry, swriter,
                 outq, sock, lastPing, netIn, bcastq, bpc, removeIdx,
                 bshutdown, nextSession, nextMsg, framesSent, handled, disconnects,
                 fanout>>

\* Write loop, `if ws_sender.send(..).is_err() { break; }` and the same
\* after ws_sender.ping(): the writer stays in the loop after a write that
\* succeeded and leaves it for rt.join() after one that failed.
AfterWriteKeepsLooping(s, ok) == swriter

AfterWrite(s, ok) ==
  IF ok THEN swriter ELSE [swriter EXCEPT ![s] = "joining"]

\* Write loop: an outgoing message is received. Message: written to the
\* socket (ok tells whether the write succeeds), break if it fails.
\* Broadcast: forwarded to the broadcast channel, break if the broadcast
\* thread is gone.
WriterStep(s, ok) ==
  /\ swriter[s] = "loop"
  /\ outq[s] # <<>>
  /\ LET o == Head(outq[s]) IN
       IF o.kind = "Message"
         THEN /\ sock' = IF ok THEN [sock EXCEPT ![s] = Append(sock[s], o.msg)] ELSE sock
              /\ swriter' = AfterWrite(s, ok)
              /\ wfail' = [wfail EXCEPT ![s] = @ \/ ~ok]
              /\ bcastq' = bcastq
         ELSE /\ ok
              /\ bcastq' = IF bpc # "done" THEN Append(bcastq, o.msg) ELSE bcastq
              /\ swriter' = IF bpc # "done" THEN swriter ELSE [swriter EXCEPT ![s] = "joining"]
              /\ sock' = sock
              /\ wfail' = wfail
  /\ outq' = [outq EXCEPT ![s] = Tail(outq[s])]
  /\ UNCHANGED <<wsRest, late, sent, enq, hookAlive, wsIncoming, appSignal, accPc, accThreads, registry, sreader,
                 lastPing, netIn, bpc, removeIdx, bshutdown, nextSession, nextMsg,
                 framesSent, handled, disconnects, fanout>>

\* Write loop: nothing to send within the heartbeat interval: a ping is
\* written (ok tells whether the write succeeds), break if it fails.
WriterTimeout(s, ok) ==
  /\ swriter[s] = "loop"
  /\ outq[s] = <<>>
  /\ lastPing' = IF ok THEN s ELSE lastPing
  /\ swriter' = AfterWrite(s, ok)
  /\ wfail' = [wfail EXCEPT ![s] = @ \/ ~ok]
  /\ UNCHANGED <<wsRest, late, sent, enq, hookAlive, wsIncoming, appSignal, accPc, accThreads, registry, sreader,
                 outq, sock, netIn, bcastq, bpc, removeIdx, bshutdown, nextSession,
                 nextMsg, framesSent, handled, disconnects, fanout>>

\* exec(): rt.join() returns and exec() returns; the receiver of the session's
\* channel is dropped with everything buffered in it.
WriterJoined(s) ==
  /\ swriter[s] = "joining"
  /\ sreader[s] = "done"
  /\ swriter' = [swriter EXCEPT ![s] = "done"]
  /\ outq' = [outq EXCEPT ![s] = <<>>]
  /\ UNCHANGED <<wsRest, wfail, late, sent, enq, hookAlive, wsIncoming, appSignal, accPc, accThreads, registry, sreader,
                 sock, lastPing, netIn, bcastq, bpc, removeIdx, bshutdown,
                 nextSession, nextMsg, framesSent, handled, disconnects, fanout>>

\* Handle::send on a handle of session s (inside a handler or retained).
HandleSend(s) ==
  /\ swriter[s] # "none"
  /\ nextMsg <= MaxMsgs
  /\ outq' = ChanSend(outq, s, OutMessage(TextMsg(nextMsg, s)))
  /\ enq' = Accepted(enq, s, TextMsg(nextMsg, s))
  /\ nextMsg' = nextMsg + 1
  /\ late' = Late(s, TextMsg(nextMsg, s))
  /\ UNCHANGED <<wsRest, wfail, sent, hookAlive, wsIncoming, appSignal, accPc, accThreads, registry, swriter,
                 sreader, sock, lastPing, netIn, bcastq, bpc, removeIdx,
                 bshutdown, nextSession, framesSent, handled, disconnects, fanout>>

\* BroadcastSender::broadcast on a sender that application thread th keeps:
\* the k-th message the application threads hand over.
ThreadBroadcast(th) ==
  /\ SendsMade < MaxSends
  /\ bcastq' = IF bpc # "done" THEN Append(bcastq, TextMsg(SendsMade + 1, th)) ELSE bcastq
  /\ sent' = [sent EXCEPT ![th] = @ + 1]
  /\ UNCHANGED <<wsRest, wfail, late, enq, hookAlive, wsIncoming, appSignal, accPc, accThreads, registry, swriter,
                 sreader, outq, sock, lastPing, netIn, bpc, removeIdx,
                 bshutdown, nextSession, nextMsg, framesSent, handled, disconnects, fanout>>

\* Handle::send on a handle of session s that application thread th kept:
\* the thread's k-th send.
ThreadSend(th, s) ==
  /\ swriter[s] # "none"
  /\ SendsMade < MaxSends
  /\ LET m == TextMsg(sent[th] + 1, th) IN
       /\ outq' = ChanSend(outq, s, OutMessage(m))
       /\ enq' = Accepted(enq, s, m)
  /\ sent' = [sent EXCEPT ![th] = @ + 1]
  /\ late' = Late(s, TextMsg(sent[th] + 1, th))
  /\ UNCHANGED <<wsRest, wfail, hookAlive, wsIncoming, appSignal, accPc, accThreads, registry, swriter,
                 sreader, sock, lastPing, netIn, bcastq, bpc, removeIdx,
                 bshutdown, nextSession, nextMsg, framesSent, handled, disconnects, fanout>>

\* Handle::broadcast on a handle of session s.
HandleBroadcast(s) ==
  /\ swriter[s] # "none"
  /\ nextMsg <= MaxMsgs
  /\ outq' = ChanSend(outq, s, OutBroadcast(TextMsg(nextMsg, s)))
  /\ nextMsg' = nextMsg + 1
  /\ late' = Late(s, TextMsg(nextMsg, s))
  /\ UNCHANGED <<wsRest, wfail, sent, enq, hookAlive, wsIncoming, appSignal, accPc, accThreads, registry, swriter,
                 sreader, sock, lastPing, netIn, bcastq, bpc, removeIdx,
                 bshutdown, nextSession, framesSent, handled, disconnects, fanout>>

\* BroadcastSender::broadcast: straight into the broadcast channel.
SenderBroadcast ==
  /\ nextMsg <= MaxMsgs
  /\ bcastq' = IF bpc # "done" THEN Append(bcastq, TextMsg(nextMsg, NoSession)) ELSE bcastq
  /\ nextMsg' = nextMsg + 1
  /\ UNCHANGED <<wsRest, wfail, late, sent, enq, hookAlive, wsIncoming, appSignal, accPc, accThreads, registry, swriter,
                 sreader, outq, sock, lastPing, netIn, bpc, removeIdx,
                 bshutdown, nextSession, framesSent, handled, disconnects, fanout>>

AcceptorStep == AcceptorShutdown \/ AcceptorDisconnected \/ AcceptorAccept \/ AcceptorJoin

BroadcastStep == BroadcastShutdown \/ BroadcastFanout \/ BroadcastTimeout \/ BroadcastRemove

SessionStep(s) ==
  \/ ConnectHandler(s)
  \/ ReaderRead(s)
  \/ ReaderTimeout(s)
  \/ \E ok \in BOOLEAN : WriterStep(s, ok)
  \/ \E ok \in BOOLEAN : WriterTimeout(s, ok)
  \/ WriterJoined(s)

WsEnvironment ==
  \/ ClientConnect
  \/ ServerGone
  \/ AppShutdownSignal
  \/ \E s \in Sessions, kind \in FrameKinds : ClientSend(s, kind)
  \/ \E s \in Sessions : HandleSend(s) \/ HandleBroadcast(s)
  \/ \E th \in SendThreads, s \in Sessions : ThreadSend(th, s)
  \/ \E th \in SendThreads : ThreadBroadcast(th)
  \/ SenderBroadcast

WsNext ==
  \/ WsEnvironment
  \/ AcceptorStep
  \/ BroadcastStep
  \/ \E s \in Sessions : SessionStep(s)

-----------------------------------------------------------------------------
(***************************************************************************)
(* Server, connectors and connection drivers                               *)
(***************************************************************************)

\* number of connectors started on the one server at most
MaxConnectors == 2
\* number of connections accepted at most
MaxConns == 1
\* number of requests read on one connection at most
MaxRequests == 2
\* the grace period of a connector shutdown, in timer ticks
CONNECTOR_SHUTDOWN_TIMEOUT == 1

Connectors == 1..MaxConnectors
ConnIds == 1..MaxConns
NoConnector == 0

\* states of the connection driver
DriverStates == {"Idle", "ReadingHead", "Routing", "Handling", "Writing", "Closing", "Closed"}
\* a request is in flight from the moment its head is parsed until its
\* response is flushed or the connection is closed
InFlightStates == {"Routing", "Handling", "Writing", "Closing"}

\* caught records that a request was in flight on the connection when its
\* connector was marked for shutdown
NoConn == [owner |-> NoConnector, state |-> "Closed", stream |-> "none", keepAlive |-> FALSE,
           read |-> 0, status |-> 0, responses |-> <<>>, caught |-> FALSE]

HttpInit ==
  /\ serverPc = "idle"
  /\ connectors = [c \in Connectors |->
                     [st |-> "unstarted", marked |-> FALSE, listening |-> FALSE, waited |-> 0]]
  /\ conns = [k \in ConnIds |-> NoConn]
  /\ nextConn = 1

\* Handle::is_marked_for_shutdown
IsMarkedForShutdown(c) == connectors[c].marked
\* the connections a connector accepted whose driver has not finished
OpenConns(c) == {k \in ConnIds : conns[k].owner = c /\ conns[k].state # "Closed"}

\* start(addr, server) / start_unpooled(addr, server): the socket is bound and
\* the accept loop runs.
ConnectorStart(c) ==
  /\ connectors[c].st = "unstarted"
  /\ serverPc = "idle"
  /\ connectors' = [connectors EXCEPT ![c].st = "accepting", ![c].listening = TRUE]
  /\ UNCHANGED <<httpRest, serverPc, conns, nextConn>>

\* Accept loop: a connection is accepted and handed to a connection driver.
Accept(c) ==
  /\ connectors[c].st = "accepting"
  /\ ~connectors[c].marked
  /\ nextConn <= MaxConns
  /\ conns' = [conns EXCEPT ![nextConn] =
                 [NoConn EXCEPT !.owner = c, !.state = "Idle", !.stream = "open"]]
  /\ nextConn' = nextConn + 1
  /\ UNCHANGED <<httpRest, serverPc, connectors>>

\* A client goes away: reads and writes on the stream fail from now on.
ClientClose(k) ==
  /\ conns[k].stream = "open"
  /\ conns' = [conns EXCEPT ![k].stream = "peer"]
  /\ UNCHANGED <<httpRest, serverPc, connectors, nextConn>>

\* A driver that starts on the next request while the response is still
\* being written.
MayReadNextEarly(k) == conns[k].state \in {"Idle", "Writing"}
\* The driver may start on the next request only from Idle: the response to
\* the previous one has been flushed.
MayReadNext(k) == conns[k].state = "Idle"

\* A driver that never looks at the shutdown flag.
StopRequestedNever(k) == FALSE
\* The driver's check of the shutdown flag between two requests.
StopRequested(k) == IsMarkedForShutdown(conns[k].owner)

\* Idle -> ReadingHead: the first request, or bytes are available (the client
\* may have written them at any time before); the shutdown flag is checked
\* between requests.
DriverBegin(k) ==
  /\ MayReadNext(k)
  /\ conns[k].stream = "open"
  /\ conns[k].read < MaxRequests
  /\ ~StopRequested(k)
  /\ conns' = [conns EXCEPT ![k].state = "ReadingHead"]
  /\ UNCHANGED <<httpRest, serverPc, connectors, nextConn>>

\* Idle -> Closed: the connector is marked for shutdown, the driver stops
\* after its current request.
DriverStop(k) ==
  /\ conns[k].state = "Idle"
  /\ conns[k].owner # NoConnector
  /\ IsMarkedForShutdown(conns[k].owner)
  /\ conns' = [conns EXCEPT ![k].state = "Closed"]
  /\ UNCHANGED <<httpRest, serverPc, connectors, nextConn>>

\* Idle -> Closed: nothing arrived within the keep-alive idle timeout, or the
\* stream is closed.
IdleTimeout(k) ==
  /\ conns[k].state = "Idle"
  /\ conns[k].read > 0
  /\ conns' = [conns EXCEPT ![k].state = "Closed"]
  /\ UNCHANGED <<httpRest, serverPc, connectors, nextConn>>

\* ReadingHead -> Routing: the head is parsed; ka is the keep-alive decision
\* its version and Connection header give.
HeadParsed(k, ka) ==
  /\ conns[k].state = "ReadingHead"
  /\ conns[k].stream = "open"
  /\ conns' = [conns EXCEPT ![k].state = "Routing", ![k].read = @ + 1,
                            ![k].keepAlive = ka, ![k].status = 0]
  /\ UNCHANGED <<httpRest, serverPc, connectors, nextConn>>

\* ReadingHead -> Closed: parse error; the error is returned from
\* handle_connection and nothing is written.
HeadError(k) ==
  /\ conns[k].state = "ReadingHead"
  /\ conns[k].stream = "open"
  /\ conns' = [conns EXCEPT ![k].state = "Closed", ![k].keepAlive = FALSE]
  /\ UNCHANGED <<httpRest, serverPc, connectors, nextConn>>

\* ReadingHead -> Closed: timeout (or the stream is closed), nothing is emitted.
HeadTimeout(k) ==
  /\ conns[k].state = "ReadingHead"
  /\ conns' = [conns EXCEPT ![k].state = "Closed"]
  /\ UNCHANGED <<httpRest, serverPc, connectors, nextConn>>

\* Routing -> Handling (route matched) or Closing (no route, 404).
Route(k, matched) ==
  /\ conns[k].state = "Routing"
  /\ conns' = IF matched THEN [conns EXCEPT ![k].state = "Handling"]
              ELSE [conns EXCEPT ![k].state = "Closing", ![k].status = 404]
  /\ UNCHANGED <<httpRest, serverPc, connectors, nextConn>>

\* Handling -> Writing (response returned) or Closing (endpoint error, 500).
\* The handler runs to its end whatever happens to the stream meanwhile.
Endpoint(k, ok) ==
  /\ conns[k].state = "Handling"
  /\ conns' = IF ok THEN [conns EXCEPT ![k].state = "Writing", ![k].status = 200]
              ELSE [conns EXCEPT ![k].state = "Closing", ![k].status = 500]
  /\ UNCHANGED <<httpRest, serverPc, connectors, nextConn>>

\* the response to the request in flight, as the client receives it
Response(k) == [req |-> conns[k].read, status |-> conns[k].status]

\* Writing -> Idle (keep-alive) or Closed: the response is flushed.
\* Writing -> Closed: write error, the response is dropped.
Write(k) ==
  /\ conns[k].state = "Writing"
  /\ conns' = IF conns[k].stream = "open"
                THEN [conns EXCEPT ![k].responses = Append(@, Response(k)),
                                   ![k].state = IF conns[k].keepAlive THEN "Idle" ELSE "Closed"]
                ELSE [conns EXCEPT ![k].state = "Closed"]
  /\ UNCHANGED <<httpRest, serverPc, connectors, nextConn>>

\* Closing -> Closed: the error response is written if the stream allows.
CloseWrite(k) ==
  /\ conns[k].state = "Closing"
  /\ conns' = IF conns[k].stream = "open"
                THEN [conns EXCEPT ![k].responses = Append(@, Response(k)),
                                   ![k].state = "Closed"]
                ELSE [conns EXCEPT ![k].state = "Closed"]
  /\ UNCHANGED <<httpRest, serverPc, connectors, nextConn>>

\* the driver's steps on requests
RequestStep(k) ==
  \/ DriverBegin(k)
  \/ IdleTimeout(k)
  \/ \E ka \in BOOLEAN : HeadParsed(k, ka)
  \/ HeadError(k)
  \/ HeadTimeout(k)
  \/ \E matched \in BOOLEAN : Route(k, matched)
  \/ \E ok \in BOOLEAN : Endpoint(k, ok)
  \/ Write(k)
  \/ CloseWrite(k)

DriverStep(k) == RequestStep(k) \/ DriverStop(k)

\* The mark "shutting down" is set on connector c.
Mark(c) ==
  /\ connectors' = [connectors EXCEPT ![c].marked = TRUE]
  /\ conns' = [k \in ConnIds |->
                 IF conns[k].owner = c /\ conns[k].state \in InFlightStates
                   THEN [conns[k] EXCEPT !.caught = TRUE] ELSE conns[k]]

\* Connector shutdown, step 1: mark "shutting down".
ConnectorShutdown(c) ==
  /\ connectors[c].st = "accepting"
  /\ ~connectors[c].marked
  /\ Mark(c)
  /\ UNCHANGED <<httpRest, serverPc, nextConn>>

\* Connector shutdown, steps 2 and 3: the listening socket is closed, the
\* accept loop ends, the drivers are to stop after their current request;
\* the bounded wait begins.
ListenerClose(c) ==
  /\ connectors[c].st = "accepting"
  /\ connectors[c].marked
  /\ connectors' = [connectors EXCEPT ![c].st = "draining", ![c].listening = FALSE]
  /\ UNCHANGED <<httpRest, serverPc, conns, nextConn>>

\* Connector shutdown, step 4: time passes while drivers are still running.
GraceTick(c) ==
  /\ connectors[c].st = "draining"
  /\ OpenConns(c) # {}
  /\ connectors[c].waited < CONNECTOR_SHUTDOWN_TIMEOUT
  /\ connectors' = [connectors EXCEPT ![c].waited = @ + 1]
  /\ UNCHANGED <<httpRest, serverPc, conns, nextConn>>

\* Connector shutdown, step 4: every driver has finished; join returns.
Drained(c) ==
  /\ connectors[c].st = "draining"
  /\ OpenConns(c) = {}
  /\ connectors' = [connectors EXCEPT ![c].st = "stopped"]
  /\ UNCHANGED <<httpRest, serverPc, conns, nextConn>>

\* A connector that waits for its drivers without a bound and never forces.
WaitForDrivers(c) ==
  /\ connectors[c].st = "draining"
  /\ OpenConns(c) = {}
  /\ connectors' = [connectors EXCEPT ![c].st = "stopped"]
  /\ UNCHANGED <<httpRest, serverPc, conns, nextConn>>

\* Connector shutdown, step 4: the grace period is over, the remaining
\* streams are shut down by force; join returns.
ForceClose(c) ==
  /\ connectors[c].st = "draining"
  /\ OpenConns(c) # {}
  /\ connectors[c].waited = CONNECTOR_SHUTDOWN_TIMEOUT
  /\ connectors' = [connectors EXCEPT ![c].st = "stopped"]
  /\ conns' = [k \in ConnIds |->
                 IF k \in OpenConns(c) /\ conns[k].stream = "open"
                   THEN [conns[k] EXCEPT !.stream = "forced"] ELSE conns[k]]
  /\ UNCHANGED <<httpRest, serverPc, nextConn>>

ConnectorStep(c) == ListenerClose(c) \/ GraceTick(c) \/ Drained(c) \/ ForceClose(c)

\* server.shutdown() is called.
ServerShutdownBegin ==
  /\ serverPc = "idle"
  /\ serverPc' = "marking"
  /\ UNCHANGED <<httpRest, connectors, conns, nextConn>>

\* server.shutdown(): the next connector started on the server is marked.
ServerMark(c) ==
  /\ serverPc = "marking"
  /\ connectors[c].st # "unstarted"
  /\ ~connectors[c].marked
  /\ Mark(c)
  /\ UNCHANGED <<httpRest, serverPc, nextConn>>

\* server.shutdown() returns before every connector is marked.
ServerShutdownReturnEarly ==
  /\ serverPc = "marking"
  /\ serverPc' = "returned"
  /\ UNCHANGED <<httpRest, connectors, conns, nextConn>>

\* server.shutdown() returns: every connector started on it is marked.
ServerShutdownReturn ==
  /\ serverPc = "marking"
  /\ \A c \in Connectors : connectors[c].st # "unstarted" => connectors[c].marked
  /\ serverPc' = "returned"
  /\ UNCHANGED <<httpRest, connectors, conns, nextConn>>

ServerStep == (\E c \in Connectors : ServerMark(c)) \/ ServerShutdownReturn

HttpEnvironment ==
  \/ \E c \in Connectors : ConnectorStart(c) \/ Accept(c) \/ ConnectorShutdown(c)
  \/ \E k \in ConnIds : ClientClose(k)
  \/ ServerShutdownBegin

HttpNext ==
  \/ HttpEnvironment
  \/ ServerStep
  \/ \E c \in Connectors : ConnectorStep(c)
  \/ \E k \in ConnIds : DriverStep(k)


-----------------------------------------------------------------------------
(***************************************************************************)
(* Request head and its header mutators                                    *)
(***************************************************************************)

\* number of header lines of a parsed request at most
MaxLines == 1
\* number of headers a head holds at most
MaxHeaders == 2

\* header names as callers and clients spell them
NameInputs == {"Content-Length", "content-length", "Transfer-Encoding", "Accept", "X-Id"}
\* header values as callers and clients write them
ValueInputs == {"7", "text/plain", "?"}
\* request paths
PathInputs == {"/", "/bla"}

\* ASCII lower case of the spelled names
ToLower(n) ==
  CASE n = "Content-Length" -> "content-length"
    [] n = "Transfer-Encoding" -> "transfer-encoding"
    [] n = "Content-Type" -> "content-type"
    [] n = "Accept" -> "accept"
    [] n = "X-Id" -> "x-id"
    [] OTHER -> n

\* HeaderLike::to_header / HeaderName::from: the known names compare without
\* regard to case, any other name is a custom header.
to_header(n) ==
  CASE ToLower(n) = "accept" -> "Accept"
    [] ToLower(n) = "content-length" -> "ContentLength"
    [] ToLower(n) = "transfer-encoding" -> "TransferEncoding"
    [] ToLower(n) = "content-type" -> "ContentType"
    [] OTHER -> ToLower(n)

\* AcceptMime::parse: the list of media types, NoAccept (None) if unparseable
NoAccept == <<>>
AcceptParse(v) ==
  CASE v = "*/*" -> <<"*/*">>
    [] v = "text/plain" -> <<"text/plain">>
    [] v = "application/json" -> <<"application/json">>
    [] OTHER -> NoAccept
\* vec![AcceptMime::default()]
AcceptDefault == <<"*/*">>

Header(n, v) == [name |-> n, value |-> v]
\* Headers::get_all, Headers::get (NoValue for None)
NoValue == ""
HeadersGetAll(hs, n) ==
  LET RECURSIVE Vals(_)
      Vals(q) == IF q = <<>> THEN <<>>
                 ELSE IF Head(q).name = n THEN <<Head(q).value>> \o Vals(Tail(q))
                 ELSE Vals(Tail(q))
  IN Vals(hs)
HeadersGet(hs, n) == IF HeadersGetAll(hs, n) = <<>> THEN NoValue ELSE Head(HeadersGetAll(hs, n))
\* Headers::remove: every header of that name goes
HeadersRemove(hs, n) ==
  LET RECURSIVE Keep(_)
      Keep(q) == IF q = <<>> THEN <<>>
                 ELSE IF Head(q).name = n THEN Keep(Tail(q))
                 ELSE <<Head(q)>> \o Keep(Tail(q))
  IN Keep(hs)
\* Headers::add: one more value, at the end
HeadersAdd(hs, n, v) == Append(hs, Header(n, v))
\* Headers::set: the name has this one value afterwards
HeadersSet(hs, n, v) == Append(HeadersRemove(hs, n), Header(n, v))

\* results of the mutators: Ok(()) or a UserError naming the header
Ok == [error |-> "none", header |-> NoValue]
UserError(kind, hdr) == [error |-> kind, header |-> hdr]

\* no request head has been read yet
NoHead == [path |-> NoValue, headers |-> <<>>, accept |-> <<>>]
NoCall == [op |-> "none", name |-> NoValue, result |-> Ok]

HeadInit ==
  /\ head = NoHead
  /\ lastCall = NoCall

\* the header lines a client may send, at most MaxLines of them
HeaderLines == UNION {[1..n -> [name : NameInputs, value : ValueInputs]] : n \in 0..MaxLines}

\* RequestHead::new: every header line is added under its HeaderName; the
\* Accept list is parsed from the first Accept header, */* if there is none,
\* and falls back to the default if it cannot be parsed.
ParsedHead(path, lines) ==
  LET hs == [i \in 1..Len(lines) |-> Header(to_header(lines[i].name), lines[i].value)]
      accept_hdr == IF HeadersGet(hs, "Accept") = NoValue THEN "*/*" ELSE HeadersGet(hs, "Accept")
      accept == AcceptParse(accept_hdr)
  IN [path |-> path, headers |-> hs,
      accept |-> IF accept = NoAccept THEN AcceptDefault ELSE accept]

\* remove_header without the arms for the immutable headers
remove_header_unchecked(h, name) ==
  LET hdr == to_header(name) IN
    IF hdr = "Accept"
      THEN [head |-> [h EXCEPT !.accept = AcceptDefault,
                               !.headers = HeadersSet(h.headers, hdr, "*/*")],
            result |-> Ok]
      ELSE [head |-> [h EXCEPT !.headers = HeadersRemove(h.headers, hdr)], result |-> Ok]

\* RequestHead::remove_header
remove_header(h, name) ==
  LET hdr == to_header(name) IN
    CASE hdr = "Accept" ->
           [head |-> [h EXCEPT !.accept = AcceptDefault,
                               !.headers = HeadersSet(h.headers, hdr, "*/*")],
            result |-> Ok]
      [] hdr = "TransferEncoding" ->
           [head |-> h, result |-> UserError("ImmutableRequestHeaderRemoved", hdr)]
      [] hdr = "ContentLength" ->
           [head |-> h, result |-> UserError("ImmutableRequestHeaderRemoved", hdr)]
      [] OTHER ->
           [head |-> [h EXCEPT !.headers = HeadersRemove(h.headers, hdr)], result |-> Ok]

\* RequestHead::set_header
set_header(h, name, value) ==
  LET hdr == to_header(name) IN
    CASE hdr = "Accept" ->
           IF AcceptParse(value) # NoAccept
             THEN [head |-> [h EXCEPT !.accept = AcceptParse(value),
                                      !.headers = HeadersSet(h.headers, hdr, value)],
                   result |-> Ok]
             ELSE [head |-> h, result |-> UserError("IllegalAcceptHeaderValueSet", hdr)]
      [] hdr = "TransferEncoding" ->
           [head |-> h, result |-> UserError("ImmutableRequestHeaderModified", hdr)]
      [] hdr = "ContentLength" ->
           [head |-> h, result |-> UserError("ImmutableRequestHeaderModified", hdr)]
      [] OTHER ->
           [head |-> [h EXCEPT !.headers = HeadersSet(h.headers, hdr, value)], result |-> Ok]

\* RequestHead::add_header; Headers::try_set sets the value only if the name
\* has none and returns the old value otherwise.
add_header(h, name, value) ==
  LET hdr == to_header(name) IN
    CASE hdr = "Accept" ->
           IF AcceptParse(value) # NoAccept
             THEN IF HeadersGet(h.headers, hdr) # NoValue
                    THEN [head |-> h, result |-> UserError("MultipleAcceptHeaderValuesSet", hdr)]
                    ELSE [head |-> [h EXCEPT !.accept = AcceptParse(value),
                                             !.headers = HeadersSet(h.headers, hdr, value)],
                          result |-> Ok]
             ELSE [head |-> h, result |-> UserError("IllegalAcceptHeaderValueSet", hdr)]
      [] hdr = "TransferEncoding" ->
           [head |-> h, result |-> UserError("ImmutableRequestHeaderModified", hdr)]
      [] hdr = "ContentLength" ->
           [head |-> h, result |-> UserError("ImmutableRequestHeaderModified", hdr)]
      [] OTHER ->
           [head |-> [h EXCEPT !.headers = HeadersAdd(h.headers, hdr, value)], result |-> Ok]

\* A request head is read from the stream.
ParseHead(path, lines) ==
  /\ lastCall.op = "none"
  /\ head' = ParsedHead(path, lines)
  /\ lastCall' = [NoCall EXCEPT !.op = "new"]
  /\ UNCHANGED <<headRest>>

\* A filter or an endpoint calls a mutator on the head it was given.
Mutate(op, name, r) ==
  /\ lastCall.op # "none"
  /\ Len(r.head.headers) <= MaxHeaders
  /\ head' = r.head
  /\ lastCall' = [op |-> op, name |-> name, result |-> r.result]
  /\ UNCHANGED <<headRest>>

RemoveHeader(name) == Mutate("remove_header", name, remove_header(head, name))
SetHeader(name, value) == Mutate("set_header", name, set_header(head, name, value))
AddHeader(name, value) == Mutate("add_header", name, add_header(head, name, value))

\* the empty string as a header value; a caller may pass it, the parser
\* never stores it (HeaderValueEmpty)
EmptyValue == "<empty>"
CallerValues == ValueInputs \cup {EmptyValue}

\* the lists of media types a filter hands to set_accept
AcceptLists == {<<"*/*">>, <<"text/plain">>}

\* AcceptMime::elements_to_header_value: the header value of a list
elements_to_header_value(types) == types[1]

\* RequestHead::set_accept
set_accept(h, types) ==
  [head |-> [h EXCEPT !.accept = types,
                      !.headers = HeadersSet(h.headers, "Accept",
                                             elements_to_header_value(types))],
   result |-> Ok]

SetAccept(types) == Mutate("set_accept", "Accept", set_accept(head, types))

\* filters call the mutators with any value, the empty one included
HeadValuesNext ==
  \/ \E path \in PathInputs, lines \in HeaderLines : ParseHead(path, lines)
  \/ \E name \in NameInputs : RemoveHeader(name)
  \/ \E name \in NameInputs, value \in CallerValues : SetHeader(name, value)
  \/ \E name \in NameInputs, value \in CallerValues : AddHeader(name, value)
  \/ \E types \in AcceptLists : SetAccept(types)

HeadNext ==
  \/ \E path \in PathInputs, lines \in HeaderLines : ParseHead(path, lines)
  \/ \E name \in NameInputs : RemoveHeader(name)
  \/ \E name \in NameInputs, value \in ValueInputs : SetHeader(name, value)
  \/ \E name \in NameInputs, value \in ValueInputs : AddHeader(name, value)


-----------------------------------------------------------------------------
(***************************************************************************)
(* Router: the filter chain around route selection                         *)
(***************************************************************************)

\* most filters of one kind on a router
MaxFilters == 1

\* no media type declared
NoMime == ""
MimeTypes == {"text/plain", "application/json"}

\* the pre-routing filters an application registers
FilterKinds == {"set_accept", "set_content_type"}

NoRouter == [built |-> FALSE, pre |-> <<>>, consumes |-> NoMime, produces |-> NoMime,
             routeFilters |-> 0, responseFilters |-> 0]

\* the routers an application can build: a route GET /* with or without a
\* consumes and a produces declaration, and filters of each kind
Routers ==
  [built : {TRUE},
   pre : UNION {[1..n -> FilterKinds] : n \in 0..MaxFilters},
   consumes : {NoMime, "text/plain"},
   produces : {NoMime, "text/plain"},
   routeFilters : 0..MaxFilters,
   responseFilters : 0..MaxFilters]

\* the header lines of a request that matter to route selection
RouteLines ==
  UNION {[1..n -> [name : {"Accept", "Content-Type"}, value : MimeTypes]] : n \in 0..MaxLines}

IdleCtx == [phase |-> "Idle", idx |-> 0, parsed |-> NoHead, seen |-> NoHead,
            status |-> 0, trace |-> <<>>]

RouterInit ==
  /\ router = NoRouter
  /\ ctx = IdleCtx

\* tc32 filter_set_accept: on path / the Accept header becomes */*
filter_set_accept(h) ==
  IF h.path = "/" THEN set_header(h, "Accept", "*/*") ELSE [head |-> h, result |-> Ok]

\* tc33 filter_set_accept: on path / the Content-Type becomes text/plain
filter_set_content_type(h) ==
  IF h.path = "/" THEN set_header(h, "Content-Type", "text/plain")
  ELSE [head |-> h, result |-> Ok]

ApplyFilter(f, h) ==
  IF f = "set_accept" THEN filter_set_accept(h) ELSE filter_set_content_type(h)

\* the route's consumes declaration admits the request's Content-Type
Consumable(rt, h) ==
  rt.consumes = NoMime \/ HeadersGet(h.headers, "ContentType") = rt.consumes

\* the request's Accept list includes a media type the route produces
Producible(rt, h) ==
  rt.produces = NoMime \/ \E i \in 1..Len(h.accept) : h.accept[i] \in {"*/*", rt.produces}

\* content negotiation after the pattern GET /* matched: 0 selects the route
Negotiate(rt, h) ==
  IF ~Consumable(rt, h) THEN 415 ELSE IF ~Producible(rt, h) THEN 406 ELSE 0

\* a route whose negotiation failed is selected all the same
AfterSelectionAlways(st) == "RouteFilters"

\* where the request goes after route selection: on to the route's filters
\* and endpoint, or straight to the status response
AfterSelection(st) == IF st = 0 THEN "RouteFilters" ELSE "Write"

\* route selection done on the head as it was read
RouteHeadAsParsed == ctx.parsed

\* the head route selection looks at: the request context's, as it is now
RouteHead == head

Log(c, what) == [c EXCEPT !.trace = Append(@, what)]

\* HumptyBuilder::builder: the application configures its router
Build(rt) ==
  /\ ~router.built
  /\ router' = rt
  /\ UNCHANGED <<routerRest, headVars, ctx>>

\* the driver reads a request head and builds the request context
RequestRead(path, lines) ==
  /\ router.built
  /\ ctx.phase = "Idle"
  /\ head' = ParsedHead(path, lines)
  /\ ctx' = [IdleCtx EXCEPT !.phase = "PreRouting", !.idx = 1, !.parsed = head']
  /\ UNCHANGED <<routerRest, lastCall, router>>

\* the next pre-routing filter runs on the request context; its error ends
\* the request with a status response
PreRoutingFilter ==
  /\ ctx.phase = "PreRouting"
  /\ ctx.idx <= Len(router.pre)
  /\ LET r == ApplyFilter(router.pre[ctx.idx], head) IN
       /\ head' = r.head
       /\ ctx' = IF r.result = Ok
                   THEN [Log(ctx, "pre_routing_filter") EXCEPT !.idx = @ + 1]
                   ELSE [Log(ctx, "pre_routing_filter") EXCEPT !.phase = "Write", !.status = 500]
  /\ UNCHANGED <<routerRest, lastCall, router>>

\* route selection with consumes/produces negotiation
SelectRoute ==
  /\ ctx.phase = "PreRouting"
  /\ ctx.idx > Len(router.pre)
  /\ LET st == Negotiate(router, RouteHead) IN
       ctx' = [Log(ctx, "route") EXCEPT !.seen = RouteHead,
                                        !.status = st,
                                        !.idx = 1,
                                        !.phase = AfterSelection(st)]
  /\ UNCHANGED <<routerRest, headVars, router>>

\* the next filter of the selected route runs
RouteFilter ==
  /\ ctx.phase = "RouteFilters"
  /\ ctx.idx <= router.routeFilters
  /\ ctx' = [Log(ctx, "route_filter") EXCEPT !.idx = @ + 1]
  /\ UNCHANGED <<routerRest, headVars, router>>

\* the endpoint (dummy_route) answers 204 No Content
Endpoint204 ==
  /\ ctx.phase = "RouteFilters"
  /\ ctx.idx > router.routeFilters
  /\ ctx' = [Log(ctx, "endpoint") EXCEPT !.phase = "ResponseFilters", !.idx = 1,
                                         !.status = 204]
  /\ UNCHANGED <<routerRest, headVars, router>>

\* the next response filter runs
ResponseFilter ==
  /\ ctx.phase = "ResponseFilters"
  /\ ctx.idx <= router.responseFilters
  /\ ctx' = [Log(ctx, "response_filter") EXCEPT !.idx = @ + 1]
  /\ UNCHANGED <<routerRest, headVars, router>>

\* the response goes to the codec
ResponseReady ==
  /\ ctx.phase = "ResponseFilters"
  /\ ctx.idx > router.responseFilters
  /\ ctx' = [ctx EXCEPT !.phase = "Write"]
  /\ UNCHANGED <<routerRest, headVars, router>>

\* the response is written and the request context dropped
ResponseWritten ==
  /\ ctx.phase = "Write"
  /\ ctx' = IdleCtx
  /\ head' = NoHead
  /\ UNCHANGED <<routerRest, lastCall, router>>

RouterNext ==
  \/ \E rt \in Routers : Build(rt)
  \/ \E path \in PathInputs, lines \in RouteLines : RequestRead(path, lines)
  \/ PreRoutingFilter
  \/ SelectRoute
  \/ RouteFilter
  \/ Endpoint204
  \/ ResponseFilter
  \/ ResponseReady
  \/ ResponseWritten

-----------------------------------------------------------------------------
(***************************************************************************)
(* handle_connection: one request read from a stream and answered          *)
(***************************************************************************)

\* the header value of a line "Name" without ": value"
Missing == "<missing>"

\* the tokens a status line splits into at single spaces; "" is the token
\* after a trailing space
StatusLines ==
  {<<m>> \o rest : m \in {"GET", "POST"},
                   rest \in {<<>>, <<"/dummy">>}
                            \cup {<<"/dummy", v>> : v \in {"", "HTTP/1.0", "HTTP/1.1", "HTTP/2.0"}}
                            \cup {<<"/dummy", v, "x">> : v \in {"HTTP/1.0", "HTTP/1.1"}}}

\* the header lines a client sends, well-formed or not
LineInputs ==
  {[name |-> "Connection", value |-> "close", eol |-> "CRLF"],
   [name |-> "Connection", value |-> "keep-alive", eol |-> "CRLF"],
   [name |-> "Hdr", value |-> "test", eol |-> "CRLF"],
   [name |-> "Hdr", value |-> "test", eol |-> "LF"],
   [name |-> "", value |-> "test", eol |-> "CRLF"],
   [name |-> "Hdr", value |-> Missing, eol |-> "CRLF"],
   [name |-> "Hdr", value |-> "", eol |-> "CRLF"]}

\* what a stream holds when handle_connection starts: nothing at all, or a
\* status line, header lines and, if terminated, the empty line after them
WireRequests ==
  [empty : {FALSE}, tokens : StatusLines, eol : {"CRLF", "LF"},
   lines : UNION {[1..n -> LineInputs] : n \in 0..MaxLines}, terminated : BOOLEAN]

EofRequest == [empty |-> TRUE, tokens |-> <<>>, eol |-> "CRLF", lines |-> <<>>,
               terminated |-> FALSE]

NoError == "none"

\* HttpVersion::try_from_net_str
try_from_net_str(v) ==
  CASE v = "HTTP/1.0" -> "HTTP/1.0"
    [] v = "HTTP/1.1" -> "HTTP/1.1"
    [] v = "" -> "HTTP/0.9"
    [] OTHER -> NoError

\* the error a header line is rejected with, NoError if it is added
HeaderLineError(l) ==
  CASE l.eol # "CRLF" -> "HeaderLineNoCRLF"
    [] l.name = "" -> "HeaderNameEmpty"
    [] l.value = Missing -> "HeaderValueMissing"
    [] l.value = "" -> "HeaderValueEmpty"
    [] OTHER -> NoError

\* the index of the first header line that is rejected, beyond the last
\* line if none is
FirstBadLine(lines) ==
  LET bad == {i \in 1..Len(lines) : HeaderLineError(lines[i]) # NoError}
  IN IF bad = {} THEN Len(lines) + 1 ELSE CHOOSE i \in bad : \A j \in bad : i <= j

\* a read that takes an empty stream for a line
EofReadIgnored(rq) == FALSE
\* read_until returned 0: the stream ended before any byte
EofRead(rq) == rq.empty

\* a parser that takes a bare LF for the end of the status line
NoCRLFAccepted(rq) == FALSE
\* strip_suffix("\r\n") fails on the status line
NoCRLF(rq) == rq.eol # "CRLF"

\* a parser that reads header lines whatever the version
IsHttp09Never(version) == FALSE
\* version == HttpVersion::Http09
IsHttp09(version) == version = "HTTP/0.9"

ParseFailure(e, n) ==
  [error |-> e, method |-> NoValue, version |-> NoValue, linesRead |-> n, head |-> NoHead]

\* RequestHead::new on what the stream holds
RequestHeadNew(rq) ==
  IF EofRead(rq) THEN ParseFailure("EofBeforeReadingAnyBytes", 0)
  ELSE IF NoCRLF(rq) THEN ParseFailure("StatusLineNoCRLF", 0)
  ELSE IF Len(rq.tokens) < 2 THEN ParseFailure("StatusLineNoWhitespace", 0)
  ELSE LET method == rq.tokens[1]
           path == rq.tokens[2]
           version == IF Len(rq.tokens) < 3 THEN "HTTP/0.9" ELSE try_from_net_str(rq.tokens[3])
       IN
    IF version = NoError THEN ParseFailure("HttpVersionNotSupported", 0)
    ELSE IF Len(rq.tokens) > 3 THEN ParseFailure("StatusLineTooManyWhitespaces", 0)
    ELSE IF IsHttp09(version) THEN
      IF method # "GET" THEN ParseFailure("MethodNotSupportedByHttpVersion", 0)
      ELSE [error |-> NoError, method |-> method, version |-> version, linesRead |-> 0,
            head |-> [path |-> path, headers |-> <<>>, accept |-> <<"text/html">>]]
    ELSE LET bad == FirstBadLine(rq.lines) IN
      IF bad <= Len(rq.lines)
        THEN ParseFailure(HeaderLineError(rq.lines[bad]), bad)
      ELSE IF ~rq.terminated
        THEN ParseFailure("HeaderLineNoCRLF", Len(rq.lines) + 1)
      ELSE [error |-> NoError, method |-> method, version |-> version,
            linesRead |-> Len(rq.lines) + 1,
            head |-> ParsedHead(path, [i \in 1..Len(rq.lines) |->
                                         [name |-> rq.lines[i].name,
                                          value |-> rq.lines[i].value]])]

\* io::ErrorKind of the error handle_connection returns
ErrorKind(e) == IF e = "StatusLineNoCRLF" THEN "InvalidData" ELSE "unspecified"

NoStream == [request |-> EofRequest, written |-> <<>>]

HcIdle == [pc |-> "none", parsed |-> ParseFailure(NoError, 0), result |-> NoError,
           kind |-> NoError, calls |-> 0, keepAlive |-> FALSE]

HcInit ==
  /\ mock = NoStream
  /\ hc = HcIdle

\* keep-alive as HTTP/1.1 defines it: an HTTP/1.1 connection is kept unless
\* the request says close, an HTTP/1.0 connection only if it says keep-alive
KeepAliveByDefault(p) ==
  /\ p.version # "HTTP/0.9"
  /\ IF p.version = "HTTP/1.1"
       THEN HeadersGet(p.head.headers, "Connection") # "close"
       ELSE HeadersGet(p.head.headers, "Connection") = "keep-alive"

\* the keep-alive decision for a parsed request: the connection is kept
\* only if the request asks for it
KeepAlive(p) ==
  /\ p.version # "HTTP/0.9"
  /\ HeadersGet(p.head.headers, "Connection") = "keep-alive"

StatusLineOf(version) == IF version = "HTTP/1.0" THEN "HTTP/1.0 200 OK" ELSE "HTTP/1.1 200 OK"

\* a codec that announces the close whatever the version
ConnectionHeaderAlways(version, ka, announce) ==
  IF ~ka THEN <<"Connection: Close">>
  ELSE IF announce THEN <<"Connection: Keep-Alive">> ELSE <<>>

\* the Connection header of a response: Close on an HTTP/1.1 connection that
\* is not kept; whether a kept connection is announced is left open
ConnectionHeader(version, ka, announce) ==
  IF ~ka THEN (IF version = "HTTP/1.1" THEN <<"Connection: Close">> ELSE <<>>)
  ELSE IF announce THEN <<"Connection: Keep-Alive">> ELSE <<>>

\* the bytes of dummy_route's response, line by line; HTTP/0.9 gets the body only
Render(version, ka, announce) ==
  IF version = "HTTP/0.9" THEN <<"Okay!">>
  ELSE <<StatusLineOf(version)>> \o ConnectionHeader(version, ka, announce)
         \o <<"Content-Length: 5", "", "Okay!">>

\* MockStream::with_str(..).to_stream(); server.handle_connection(con)
StreamOpen(rq) ==
  /\ hc.pc = "none"
  /\ mock' = [request |-> rq, written |-> <<>>]
  /\ hc' = [HcIdle EXCEPT !.pc = "ReadingHead"]
  /\ UNCHANGED <<hcRest>>

\* RequestHead::new returns; its error is returned from handle_connection
\* as it is, nothing is written
ReadHead ==
  /\ hc.pc = "ReadingHead"
  /\ LET p == RequestHeadNew(mock.request) IN
       hc' = IF p.error = NoError
               THEN [hc EXCEPT !.pc = "Routing", !.parsed = p]
               ELSE [hc EXCEPT !.pc = "Closed", !.parsed = p, !.result = p.error,
                               !.kind = ErrorKind(p.error)]
  /\ UNCHANGED <<hcRest, mock>>

\* the route /dummy matches and dummy_route runs
InvokeEndpoint ==
  /\ hc.pc = "Routing"
  /\ hc' = [hc EXCEPT !.pc = "Writing", !.calls = @ + 1, !.keepAlive = KeepAlive(hc.parsed)]
  /\ UNCHANGED <<hcRest, mock>>

\* the response is written and flushed; the connection is kept or closed
WriteResponse(announce) ==
  /\ hc.pc = "Writing"
  /\ mock' = [mock EXCEPT !.written = Render(hc.parsed.version, hc.keepAlive, announce)]
  /\ hc' = IF hc.keepAlive THEN [hc EXCEPT !.pc = "Idle"]
           ELSE [hc EXCEPT !.pc = "Closed", !.result = "Ok"]
  /\ UNCHANGED <<hcRest>>

\* the test is over: the stream is dropped
StreamDrop ==
  /\ hc.pc \in {"Idle", "Closed"}
  /\ mock' = NoStream
  /\ hc' = HcIdle
  /\ UNCHANGED <<hcRest>>

HcNext ==
  \/ \E rq \in WireRequests \cup {EofRequest} : StreamOpen(rq)
  \/ ReadHead
  \/ InvokeEndpoint
  \/ \E announce \in BOOLEAN : WriteResponse(announce)
  \/ StreamDrop

-----------------------------------------------------------------------------
(***************************************************************************)
(* Process-wide id counter: counter::next() in its two builds              *)
(***************************************************************************)

\* threads calling counter::next()
MaxCallers == 2
\* calls made in all
MaxCalls == 3

Callers == 1..MaxCallers
NoCaller == 0

\* what SystemTime::now() gives in milliseconds; 0 is unwrap_or_default()
ClockMs == {0, 1, 2}

\* a u128 as its upper and lower 64 bits
U128(hi, lo) == [hi |-> hi, lo |-> lo]
Zero128 == U128(0, 0)
Less128(a, b) == a.hi < b.hi \/ (a.hi = b.hi /\ a.lo < b.lo)

CallerIdle == [pc |-> "idle", time |-> 0, before |-> {}, val |-> Zero128]

CtrInit ==
  /\ ctr = [build |-> "unset", TIME |-> 0, COUNTER |-> 0, holder |-> NoCaller,
            counter |-> Zero128, started |-> 0, returned |-> {}]
  /\ callers = [t \in Callers |-> CallerIdle]

\* the build selects one of the two modules: target_has_atomic = "64" or not
SelectBuild(build) ==
  /\ ctr.build = "unset"
  /\ ctr' = [ctr EXCEPT !.build = build]
  /\ UNCHANGED <<ctrRest, callers>>

\* a thread calls counter::next(); the values returned so far are noted
CallNext(t) ==
  /\ ctr.build # "unset"
  /\ callers[t].pc = "idle"
  /\ ctr.started < MaxCalls
  /\ ctr' = [ctr EXCEPT !.started = @ + 1]
  /\ callers' = [callers EXCEPT ![t] =
                   [CallerIdle EXCEPT !.pc = IF ctr.build = "atomic" THEN "load" ELSE "lock",
                                      !.before = ctr.returned]]
  /\ UNCHANGED <<ctrRest>>

\* ---- atomic build ----

\* TIME.load(Relaxed): the value stored, or the initial 0 if the store of
\* another thread is not yet visible
LoadTime(t, stale) ==
  /\ callers[t].pc = "load"
  /\ LET time == IF stale THEN 0 ELSE ctr.TIME IN
       callers' = [callers EXCEPT ![t].time = time,
                                  ![t].pc = IF time = 0 THEN "clock" ELSE "add"]
  /\ UNCHANGED <<ctrRest, ctr>>

\* time = SystemTime::now() in milliseconds
ReadClock(t, ms) ==
  /\ callers[t].pc = "clock"
  /\ callers' = [callers EXCEPT ![t].time = ms, ![t].pc = "cas"]
  /\ UNCHANGED <<ctrRest, ctr>>

\* TIME.compare_exchange(0, time): on failure the stored time is taken
CompareExchange(t) ==
  /\ callers[t].pc = "cas"
  /\ IF ctr.TIME = 0
       THEN /\ ctr' = [ctr EXCEPT !.TIME = callers[t].time]
            /\ callers' = [callers EXCEPT ![t].pc = "add"]
       ELSE /\ callers' = [callers EXCEPT ![t].time = ctr.TIME, ![t].pc = "add"]
            /\ UNCHANGED ctr
  /\ UNCHANGED <<ctrRest>>

\* a counter read without being advanced
FetchAddLoadOnly(t) ==
  /\ callers[t].pc = "add"
  /\ callers' = [callers EXCEPT ![t].val = U128(callers[t].time, ctr.COUNTER),
                                ![t].pc = "ret"]
  /\ UNCHANGED <<ctrRest, ctr>>

\* COUNTER.fetch_add(1, SeqCst); the result is time << 64 | counter
FetchAdd(t) ==
  /\ callers[t].pc = "add"
  /\ ctr' = [ctr EXCEPT !.COUNTER = @ + 1]
  /\ callers' = [callers EXCEPT ![t].val = U128(callers[t].time, ctr.COUNTER),
                                ![t].pc = "ret"]
  /\ UNCHANGED <<ctrRest>>

\* ---- mutex build ----

\* COUNTER.lock()
Lock(t) ==
  /\ callers[t].pc = "lock"
  /\ ctr.holder = NoCaller
  /\ ctr' = [ctr EXCEPT !.holder = t]
  /\ callers' = [callers EXCEPT ![t].pc = "seed"]
  /\ UNCHANGED <<ctrRest>>

\* if *counter == 0 it is set to the time in milliseconds << 64
Seed(t, ms) ==
  /\ callers[t].pc = "seed"
  /\ ctr' = IF ctr.counter = Zero128 THEN [ctr EXCEPT !.counter = U128(ms, 0)] ELSE ctr
  /\ callers' = [callers EXCEPT ![t].pc = "incr"]
  /\ UNCHANGED <<ctrRest>>

\* *counter += 1; *counter is the result
Increment(t) ==
  /\ callers[t].pc = "incr"
  /\ ctr' = [ctr EXCEPT !.counter = U128(@.hi, @.lo + 1)]
  /\ callers' = [callers EXCEPT ![t].val = ctr'.counter, ![t].pc = "unlock"]
  /\ UNCHANGED <<ctrRest>>

\* the guard is dropped
Unlock(t) ==
  /\ callers[t].pc = "unlock"
  /\ ctr' = [ctr EXCEPT !.holder = NoCaller]
  /\ callers' = [callers EXCEPT ![t].pc = "ret"]
  /\ UNCHANGED <<ctrRest>>

\* next() returns its value to the caller
ReturnNext(t) ==
  /\ callers[t].pc = "ret"
  /\ ctr' = [ctr EXCEPT !.returned = @ \cup {callers[t].val}]
  /\ callers' = [callers EXCEPT ![t].pc = "idle"]
  /\ UNCHANGED <<ctrRest>>

CounterNext ==
  \/ \E build \in {"atomic", "mutex"} : SelectBuild(build)
  \/ \E t \in Callers :
       \/ CallNext(t)
       \/ \E stale \in BOOLEAN : LoadTime(t, stale)
       \/ \E ms \in ClockMs : ReadClock(t, ms)
       \/ CompareExchange(t)
       \/ FetchAdd(t)
       \/ Lock(t)
       \/ \E ms \in ClockMs : Seed(t, ms)
       \/ Increment(t)
       \/ Unlock(t)
       \/ ReturnNext(t)

-----------------------------------------------------------------------------
(***************************************************************************)
(* Static-file lookup: try_find_path (route.rs)                            *)
(***************************************************************************)

\* length of the request paths tried, in pieces
MaxPathLen == 3

\* The pieces a request path is made of: plain characters, percent escapes,
\* "2e" (the two characters after a percent sign that was itself escaped) and
\* "%zz", an escape that is no hexadecimal number.
PathPieces == {"a", ".", "/", ":", "%2e", "%2f", "%3a", "%25", "2e", "%zz"}

RequestPaths == UNION {[1..n -> PathPieces] : n \in 0..MaxPathLen}

NoPath == <<"%zz">>

\* PercentDecode::percent_decode, one pass over the text: an escape becomes
\* its byte, a broken escape makes the result None.
DecodePiece(c) ==
  CASE c = "%2e" -> "."
    [] c = "%2f" -> "/"
    [] c = "%3a" -> ":"
    [] c = "%25" -> "%"
    [] OTHER -> c

percent_decode(path) ==
  IF \E k \in 1..Len(path) : path[k] = "%zz" THEN NoPath
  ELSE [k \in 1..Len(path) |-> DecodePiece(path[k])]

\* str::contains("..") and str::contains(':')
ContainsDotDot(path) == \E k \in 1..(Len(path) - 1) : path[k] = "." /\ path[k + 1] = "."
ContainsColon(path) == \E k \in 1..Len(path) : path[k] = ":"

\* a guard that forgot the check for ".."
IsTraversalColonOnly(path) == ContainsColon(path)
\* request_path.contains("..") || request_path.contains(':')
IsTraversal(path) == ContainsDotDot(path) \/ ContainsColon(path)

\* str::trim_start_matches('/')
RECURSIVE TrimStart(_)
TrimStart(path) ==
  IF path # <<>> /\ Head(path) = "/" THEN TrimStart(Tail(path)) ELSE path

\* The file system. A place is told by the number of levels it lies above
\* the served directory and the names that lead down from there. The served
\* directory holds the file "a"; its parent holds a file "a" of its own.
Place(up, names) == [up |-> up, names |-> names]
ServedDir == Place(0, <<>>)
IsDir(pl) == pl.names = <<>>
IsFile(pl) == pl.names = <<"a">>
NoPlace == Place(-1, <<>>)

\* the names between the slashes of a path
RECURSIVE Segments(_, _)
Segments(path, cur) ==
  IF path = <<>> THEN <<cur>>
  ELSE IF Head(path) = "/" THEN <<cur>> \o Segments(Tail(path), <<>>)
  ELSE Segments(Tail(path), Append(cur, Head(path)))

\* the file name of a segment: the segment's characters put together
RECURSIVE Name(_)
Name(seg) == IF seg = <<>> THEN "" ELSE Head(seg) \o Name(Tail(seg))

\* metadata(path): the kernel walks the segments from the served directory;
\* "." and an empty segment stay, ".." goes to the parent, a name goes down
\* and must exist; only a directory can be walked through.
RECURSIVE Walk(_, _)
Walk(segs, pl) ==
  IF segs = <<>> THEN pl
  ELSE IF pl = NoPlace \/ ~IsDir(pl) THEN NoPlace
  ELSE LET seg == Head(segs) IN
    IF seg = <<>> \/ seg = <<".">> THEN Walk(Tail(segs), pl)
    ELSE IF seg = <<".", ".">> THEN Walk(Tail(segs), Place(pl.up + 1, <<>>))
    ELSE IF seg = <<"a">> THEN Walk(Tail(segs), Place(pl.up, <<"a">>))
    ELSE NoPlace

metadata(path) == Walk(Segments(path, <<>>), ServedDir)

\* Option<LocatedPath>
NoneFound == [kind |-> "None", at |-> NoPlace]
Directory == [kind |-> "Directory", at |-> NoPlace]
File(pl) == [kind |-> "File", at |-> pl]

\* index_files
IndexFiles == <<"a">>

\* the first index file that is a file under the path, if any
LocateIndex(path) ==
  LET hits == {k \in 1..Len(IndexFiles) : IsFile(metadata(Append(path, IndexFiles[k])))} IN
    IF hits = {} THEN NoneFound
    ELSE File(metadata(Append(path, IndexFiles[CHOOSE k \in hits : \A j \in hits : k <= j])))

try_find_path(request_path) ==
  LET decoded == percent_decode(request_path) IN
    IF decoded = NoPath THEN NoneFound
    ELSE IF IsTraversal(decoded) THEN NoneFound
    ELSE LET path == TrimStart(decoded) IN
      IF path = <<>> \/ path[Len(path)] = "/" THEN LocateIndex(path)
      ELSE IF IsFile(metadata(path)) THEN File(metadata(path))
      ELSE IF metadata(path) # NoPlace /\ IsDir(metadata(path)) THEN Directory
      ELSE NoneFound

NotCalled == [path |-> <<>>, result |-> NoneFound, called |-> FALSE]

FindInit == found = NotCalled

\* a static-file handler looks a request path up
FindPath(request_path) ==
  /\ ~found.called
  /\ found' = [path |-> request_path, result |-> try_find_path(request_path), called |-> TRUE]
  /\ UNCHANGED findRest

\* the handler has answered the request
FindDone ==
  /\ found.called
  /\ found' = NotCalled
  /\ UNCHANGED findRest

FindNext == FindDone \/ \E request_path \in RequestPaths : FindPath(request_path)

-----------------------------------------------------------------------------
(***************************************************************************)
(* RequestHead::new, byte by byte: how much of a head is buffered          *)
(***************************************************************************)

\* length of the lines a client sends, in bytes (the line end included)
MaxLineBytes == 3

\* the values with_max_head_buffer_size is given
HeadLimits == 1..MaxLineBytes

\* the heads a client sends: the length of the status line, then the lengths
\* of the header lines and of the empty line that ends the head
WireHeads == UNION {[1..n -> 1..MaxLineBytes] : n \in 1..(MaxLines + 1)}

RECURSIVE SumLen(_)
SumLen(lens) == IF lens = <<>> THEN 0 ELSE Head(lens) + SumLen(Tail(lens))

RdIdle == [pc |-> "none", limit |-> 1, lines |-> <<>>, idx |-> 0, buf |-> 0, kept |-> 0,
           written |-> "none"]

HeadReadInit == rd = RdIdle

\* a connection is accepted by a server built with the given limit; the
\* client sends a head. RequestHead::new starts with an empty start_line_buf.
HeadReadOpen(limit, lines) ==
  /\ rd.pc = "none"
  /\ rd' = [RdIdle EXCEPT !.pc = "reading", !.limit = limit, !.lines = lines, !.idx = 1]
  /\ UNCHANGED rdRest

\* stream.read_until(0xA, &mut buf): one more byte of the line arrives and
\* is pushed onto the Vec, which grows as needed
ReadUntilByte ==
  /\ rd.pc = "reading"
  /\ rd.buf < rd.lines[rd.idx]
  /\ rd' = [rd EXCEPT !.buf = @ + 1]
  /\ UNCHANGED rdRest

\* read_until returns at the line feed: the line is parsed and what it held
\* is kept in the head (status line, header name and value); the header loop
\* goes on with a fresh line_buf until the empty line was read
ReadUntilReturns ==
  /\ rd.pc = "reading"
  /\ rd.buf = rd.lines[rd.idx]
  /\ rd' = [rd EXCEPT !.kept = @ + rd.buf, !.buf = 0, !.idx = @ + 1,
                      !.pc = IF rd.idx = Len(rd.lines) THEN "parsed" ELSE "reading"]
  /\ UNCHANGED rdRest

\* the head is routed and the endpoint's response is written
HeadReadRespond ==
  /\ rd.pc = "parsed"
  /\ rd' = [rd EXCEPT !.pc = "Closed", !.written = "200"]
  /\ UNCHANGED rdRest

\* the connection is dropped
HeadReadDrop ==
  /\ rd.pc = "Closed"
  /\ rd' = RdIdle
  /\ UNCHANGED rdRest

HeadReadNext ==
  \/ \E limit \in HeadLimits, lines \in WireHeads : HeadReadOpen(limit, lines)
  \/ ReadUntilByte
  \/ ReadUntilReturns
  \/ HeadReadRespond
  \/ HeadReadDrop

-----------------------------------------------------------------------------
(***************************************************************************)
(* Response headers and their serialization                                *)
(***************************************************************************)

\* number of with_header and with_cookie calls on one response
MaxInserts == 3

\* header names a handler sets and cookies it adds
RespHeaderNames == {"Content-Type", "Content-Language", "Date"}
Cookies == {"X-Example-Cookie=example-value", "X-Example-Token=example-token"}

HeaderLine(h) == h.name \o ": " \o h.value

NoResponse == [pc |-> "none", headers |-> <<>>, inserted |-> <<>>, out |-> <<>>]

RespInit == resp = NoResponse

\* Response::empty(StatusCode::OK)
ResponseEmpty ==
  /\ resp.pc = "none"
  /\ resp' = [NoResponse EXCEPT !.pc = "building"]
  /\ UNCHANGED respRest

\* Response::with_header: the header goes in front of the ones present
with_header(headers, name, value) == <<[name |-> name, value |-> value]>> \o headers

\* Response::with_cookie: the Set-Cookie header goes behind the ones present
with_cookie(headers, cookie) == Append(headers, [name |-> "Set-Cookie", value |-> cookie])

WithHeader(name) ==
  /\ resp.pc = "building"
  /\ Len(resp.inserted) < MaxInserts
  /\ \A k \in 1..Len(resp.inserted) : resp.inserted[k].name # name
  /\ resp' = [resp EXCEPT !.headers = with_header(@, name, "v"),
                          !.inserted = Append(@, [name |-> name, value |-> "v"])]
  /\ UNCHANGED respRest

WithCookie(cookie) ==
  /\ resp.pc = "building"
  /\ Len(resp.inserted) < MaxInserts
  /\ resp' = [resp EXCEPT !.headers = with_cookie(@, cookie),
                          !.inserted = Append(@, [name |-> "Set-Cookie", value |-> cookie])]
  /\ UNCHANGED respRest

\* the headers of the response, one line each, as the serializer walks them
SerializeHeaders(headers) == [k \in 1..Len(headers) |-> HeaderLine(headers[k])]

\* what the core adds when it writes the response on a connection it closes
CoreHeaders == <<"Connection: Close", "Content-Length: 0">>

\* the response is written: status line, its headers, the core's headers
Serialize ==
  /\ resp.pc = "building"
  /\ resp' = [resp EXCEPT !.pc = "written",
                          !.out = <<"HTTP/1.1 200 OK">> \o SerializeHeaders(resp.headers)
                                    \o CoreHeaders]
  /\ UNCHANGED respRest

ResponseDrop ==
  /\ resp.pc = "written"
  /\ resp' = NoResponse
  /\ UNCHANGED respRest

RespNext ==
  \/ ResponseEmpty
  \/ \E name \in RespHeaderNames : WithHeader(name)
  \/ \E cookie \in Cookies : WithCookie(cookie)
  \/ Serialize
  \/ ResponseDrop

-----------------------------------------------------------------------------
(***************************************************************************)
(* Reading a WebSocket message (websocket/message.rs)                      *)
(*                                                                         *)
(* Message::from_stream and Message::from_stream_nonblocking read frames   *)
(* from the stream until one has the fin bit, answer pings, note pongs,    *)
(* echo a close, and concatenate the payloads of the frames they kept.     *)
(* One loop iteration is one step; whether a write to the stream succeeds  *)
(* is the peer's choice.  mstream.trace is the history of the stream: the       *)
(* frames read from it and the frames written (or not) to it, in order.    *)
(***************************************************************************)

\* frames on the wire of one stream
MaxWireFrames == 3

Frame(opcode, fin, payload) == [opcode |-> opcode, fin |-> fin, payload |-> payload]

\* the frames a peer sends: the fragments of a message, and control frames
WireFrames ==
  {Frame("Text", FALSE, <<"a">>), Frame("Continuation", TRUE, <<"c">>),
   Frame("Ping", TRUE, <<"p">>), Frame("Ping", TRUE, <<"q">>),
   Frame("Pong", TRUE, <<>>), Frame("Close", TRUE, <<"z">>)}

Wires == UNION {[1..n -> WireFrames] : n \in 0..MaxWireFrames}

NoResult == [kind |-> "none"]
MsgOk(payload, text) == [kind |-> "Ok", payload |-> payload, text |-> text]
MsgErr(e) == [kind |-> "Err", error |-> e]
MsgNone == [kind |-> "None"]

NoWsStream ==
  [pc |-> "closed", wire |-> <<>>, mode |-> "none", frames |-> <<>>,
   is_first_frame |-> TRUE, trace |-> <<>>, callStart |-> 0, result |-> NoResult,
   returned |-> <<>>]

MsgInit == mstream = NoWsStream

\* events of the stream's history
ReadEv(f) == [ev |-> "read", frame |-> f]
WriteEv(f, ok) == [ev |-> IF ok THEN "write" ELSE "write failed", frame |-> f]

\* `Frame::new(Opcode::Pong, frame.payload)`
PongEmpty(frame) == Frame("Pong", TRUE, <<>>)

PongFor(frame) == Frame("Pong", TRUE, frame.payload)

\* `Frame::new(Opcode::Close, frame.payload)`
CloseEmpty(frame) == Frame("Close", TRUE, <<>>)

CloseFor(frame) == Frame("Close", TRUE, frame.payload)

\* the fold at the end of from_stream: the payloads of the kept frames
RECURSIVE Concatenate(_)
Concatenate(frames) ==
  IF frames = <<>> THEN <<>>
  ELSE Head(frames).payload \o Concatenate(Tail(frames))

\* `Ok(Self { payload, text: frames.first().map(|f| f.opcode == Opcode::Text) })`
MessageOfLastFrame(frames) ==
  MsgOk(Concatenate(frames), frames[Len(frames)].opcode = "Text")

MessageOf(frames) == MsgOk(Concatenate(frames), Head(frames).opcode = "Text")

\* a peer opens a WebSocket stream and sends the frames of wire
WsStreamOpen(wire) ==
  /\ mstream.pc = "closed"
  /\ mstream' = [NoWsStream EXCEPT !.pc = "idle", !.wire = wire]
  /\ UNCHANGED msgRest

\* the call starts: `let mut frames: Vec<Frame> = Vec::new();`
CallStarts(mode) ==
  /\ mstream.pc \in {"idle", "returned"}
  /\ mstream' = [mstream EXCEPT !.pc = "reading", !.mode = mode, !.frames = <<>>,
                      !.is_first_frame = TRUE, !.callStart = Len(mstream.trace),
                      !.result = NoResult]
  /\ UNCHANGED msgRest

from_stream == CallStarts("blocking")

from_stream_nonblocking == CallStarts("nonblocking")

\* the call returns r; mstream.returned keeps the messages returned so far
Returns(m, r) ==
  [m EXCEPT !.pc = "returned", !.result = r,
            !.returned = IF r.kind = "Ok" THEN Append(m.returned, r) ELSE m.returned]

\* One iteration of `while frames.last().map(|f| !f.fin).unwrap_or(true)`.
\* Nothing left on the wire: the nonblocking read of a first frame has
\* nothing to return, any other read fails.
ReadFrame(ok) ==
  /\ mstream.pc = "reading"
  /\ IF mstream.wire = <<>>
       THEN mstream' = Returns(mstream, IF mstream.mode = "nonblocking" /\ mstream.is_first_frame
                                THEN MsgNone ELSE MsgErr("ReadError"))
       ELSE LET frame == Head(mstream.wire)
                got == [mstream EXCEPT !.wire = Tail(mstream.wire),
                                  !.trace = Append(mstream.trace, ReadEv(frame))]
                kept == Append(mstream.frames, frame)
            IN  CASE frame.opcode = "Ping" ->
                       LET m == [got EXCEPT !.trace = Append(got.trace, WriteEv(PongFor(frame), ok))]
                       IN  mstream' = IF ok THEN m ELSE Returns(m, MsgErr("WriteError"))
                  [] frame.opcode = "Pong" -> mstream' = got
                  [] frame.opcode = "Close" ->
                       LET m == [got EXCEPT !.trace = Append(got.trace, WriteEv(CloseFor(frame), ok))]
                       IN  mstream' = Returns(m, MsgErr(IF ok THEN "ConnectionClosed" ELSE "WriteError"))
                  [] OTHER ->
                       LET m == [got EXCEPT !.frames = kept, !.is_first_frame = FALSE]
                       IN  mstream' = IF frame.fin THEN Returns(m, MessageOf(kept)) ELSE m
  /\ UNCHANGED msgRest

\* the frames the peer has sent so far: those read and those on the wire
RECURSIVE FramesRead(_)
FramesRead(trace) ==
  IF trace = <<>> THEN <<>>
  ELSE (IF Head(trace).ev = "read" THEN <<Head(trace).frame>> ELSE <<>>)
         \o FramesRead(Tail(trace))

FramesSent == FramesRead(mstream.trace) \o mstream.wire

\* the peer sends one more frame on an open stream, none after a Close
PeerSend(frame) ==
  /\ mstream.pc # "closed"
  /\ Len(FramesSent) < MaxWireFrames
  /\ \A k \in 1..Len(FramesSent) : FramesSent[k].opcode # "Close"
  /\ mstream' = [mstream EXCEPT !.wire = Append(mstream.wire, frame)]
  /\ UNCHANGED msgRest

\* the stream is dropped
WsStreamClose ==
  /\ mstream.pc \in {"idle", "returned"}
  /\ mstream' = NoWsStream
  /\ UNCHANGED msgRest

\* a stream read with from_stream_nonblocking only, while its frames arrive
MsgNonblockingNext ==
  \/ WsStreamOpen(<<>>)
  \/ \E frame \in WireFrames : PeerSend(frame)
  \/ from_stream_nonblocking
  \/ \E ok \in BOOLEAN : ReadFrame(ok)
  \/ WsStreamClose

MsgNext ==
  \/ \E wire \in Wires : WsStreamOpen(wire)
  \/ from_stream
  \/ from_stream_nonblocking
  \/ \E ok \in BOOLEAN : ReadFrame(ok)
  \/ WsStreamClose

-----------------------------------------------------------------------------
(***************************************************************************)
(* One header line (http/request.rs, the header loop of RequestHead::new)  *)
(*                                                                         *)
(* A line is the characters read_until returned before the line end, and   *)
(* the line end it found: CRLF, a bare LF, or none at the end of stream.   *)
(***************************************************************************)

\* characters of a header line before its line end
MaxLineChars == 4

LineChars == {"a", ":", " "}
LineEnds == {"CRLF", "LF", "none"}

HeaderLineTexts == UNION {[1..n -> LineChars] : n \in 0..MaxLineChars}

\* str::trim
RECURSIVE trim_start(_)
trim_start(s) == IF s # <<>> /\ Head(s) = " " THEN trim_start(Tail(s)) ELSE s

RECURSIVE trim_end(_)
trim_end(s) ==
  IF s # <<>> /\ s[Len(s)] = " " THEN trim_end(SubSeq(s, 1, Len(s) - 1)) ELSE s

trim(s) == trim_end(trim_start(s))

\* `line.splitn(2, ": ")`: the line cut at the first colon followed by a
\* space, one part if there is none
splitn(line) ==
  LET at == {i \in 1..(Len(line) - 1) : line[i] = ":" /\ line[i + 1] = " "}
  IN  IF at = {} THEN <<line>>
      ELSE LET i == CHOOSE i \in at : \A j \in at : i <= j
           IN  <<SubSeq(line, 1, i - 1), SubSeq(line, i + 2, Len(line))>>

LineEnd == [kind |-> "end"]
LineErr(e) == [kind |-> "err", error |-> e]
LineAdd(name, value) == [kind |-> "add", name |-> name, value |-> value]

\* one iteration of the header loop on the line text, ended by eol
header_line(text, eol) ==
  IF eol = "CRLF" /\ text = <<>> THEN LineEnd
  ELSE IF eol # "CRLF" THEN LineErr("HeaderLineNoCRLF")
  ELSE LET line_parts == splitn(text)
           name == trim(line_parts[1])
       IN  IF name = <<>> THEN LineErr("HeaderNameEmpty")
           ELSE IF Len(line_parts) < 2 THEN LineErr("HeaderValueMissing")
           ELSE LET value == trim(line_parts[2])
                IN  IF value = <<>> THEN LineErr("HeaderValueEmpty")
                    ELSE LineAdd(name, value)

NoLine == [called |-> FALSE, text |-> <<>>, eol |-> "none", result |-> LineEnd]

HeaderLineInit == hl = NoLine

\* the loop reads a line and handles it
HeaderLineRead(text, eol) ==
  /\ ~hl.called
  /\ hl' = [called |-> TRUE, text |-> text, eol |-> eol, result |-> header_line(text, eol)]
  /\ UNCHANGED hlineRest

\* the next request
HeaderLineDone ==
  /\ hl.called
  /\ hl' = NoLine
  /\ UNCHANGED hlineRest

HeaderLineNext ==
  \/ ~hl.called /\ \E text \in HeaderLineTexts, eol \in LineEnds : HeaderLineRead(text, eol)
  \/ HeaderLineDone

-----------------------------------------------------------------------------
(***************************************************************************)
(* RequestHead::new: the header loop on a stream that ends                 *)
(***************************************************************************)

\* number of lines, each ended by a line feed, that a stream holds after the
\* status line
MaxLoopLines == 2

\* what the lines hold: nothing, a header, a name without value, a value
\* without name
LoopTexts == {<<>>, <<"a", ":", " ", "a">>, <<"a">>, <<":", " ", "a">>}

\* what one read_until(0xA, ..) puts into line_buf: the text before the line
\* end, the line end ("none": the stream ended first) and whether the bytes
\* are valid UTF-8
Chunk(text, eol, utf8) == [text |-> text, eol |-> eol, utf8 |-> utf8]

\* the lines a client sends, and what it sends after the last line feed
\* before it closes the stream (nothing, or an unfinished line)
LoopLines ==
  {Chunk(text, eol, TRUE) : text \in LoopTexts, eol \in {"CRLF", "LF"}}
    \cup {Chunk(<<"a">>, "CRLF", FALSE)}
LoopTails == {Chunk(text, "none", TRUE) : text \in LoopTexts} \cup {Chunk(<<"a">>, "none", FALSE)}

\* the bytes that follow an accepted HTTP/1.x status line
LoopStreams ==
  [lines : UNION {[1..n -> LoopLines] : n \in 0..MaxLoopLines}, tail : LoopTails]

NoLoopStream == [lines |-> <<>>, tail |-> Chunk(<<>>, "none", TRUE)]

NoLoop == [pc |-> "none", stream |-> NoLoopStream, pos |-> 0, headers |-> <<>>,
           error |-> NoError, head |-> FALSE]

HeadLoopInit == hloop = NoLoop

\* stream.read_until(0xA, &mut line_buf), the n-th call: the next line with
\* its line feed; at the end of the stream what is left, without a line
\* feed, and nothing from then on
read_until(stream, n) ==
  IF n <= Len(stream.lines) THEN stream.lines[n]
  ELSE IF n = Len(stream.lines) + 1 THEN stream.tail
  ELSE Chunk(<<>>, "none", TRUE)

\* a loop body that takes the end of the stream for the end of the headers
LoopBodyEofEnds(line) ==
  IF ~line.utf8 THEN LineErr("HeaderLineIsNotUsAscii")
  ELSE IF line.text = <<>> /\ line.eol = "none" THEN LineEnd
  ELSE header_line(line.text, line.eol)

\* the body of the header loop on what read_until has put into line_buf:
\* from_utf8, then the checks of the line
LoopBody(line) ==
  IF ~line.utf8 THEN LineErr("HeaderLineIsNotUsAscii")
  ELSE header_line(line.text, line.eol)

\* RequestHead::new has accepted an HTTP/1.0 or HTTP/1.1 status line: let mut
\* headers = Headers::new(), and the loop is entered
HeaderLoopOpen(stream) ==
  /\ hloop.pc = "none"
  /\ hloop' = [NoLoop EXCEPT !.pc = "loop", !.stream = stream]
  /\ UNCHANGED headLoopRest

\* one iteration of the loop: the line is read and checked; break on the
\* empty line (the head is returned), return Err on a rejected line,
\* headers.add and the next iteration otherwise
HeaderLoopRead ==
  /\ hloop.pc = "loop"
  /\ LET r == LoopBody(read_until(hloop.stream, hloop.pos + 1)) IN
       hloop' =
         CASE r.kind = "end" -> [hloop EXCEPT !.pc = "returned", !.pos = @ + 1, !.head = TRUE]
           [] r.kind = "err" -> [hloop EXCEPT !.pc = "returned", !.pos = @ + 1,
                                              !.error = r.error]
           [] r.kind = "add" -> [hloop EXCEPT !.pos = @ + 1,
                                              !.headers = Append(@, <<r.name, r.value>>)]
  /\ UNCHANGED headLoopRest

\* the caller has the result; the stream is dropped
HeaderLoopDone ==
  /\ hloop.pc = "returned"
  /\ hloop' = NoLoop
  /\ UNCHANGED headLoopRest

HeadLoopNext ==
  \/ hloop.pc = "none" /\ \E stream \in LoopStreams : HeaderLoopOpen(stream)
  \/ HeaderLoopRead
  \/ HeaderLoopDone

-----------------------------------------------------------------------------
(***************************************************************************)
(* The status line (http/request.rs, parse_status_line and the start of    *)
(* RequestHead::new)                                                       *)
(*                                                                         *)
(* start_line_buf is what read_until(0xA) returned: bytes without a line   *)
(* feed, then the line feed, or nothing more at the end of the stream.     *)
(***************************************************************************)

\* bytes of a status line: an alphanumeric, a space, a reserved character,
\* the percent sign, a carriage return, a byte outside of all these
StatusBytes == {"a", " ", "/", "%", "CR", "<"}

\* the bytes before the line end, MaxLineChars of them at most
StatusTexts == UNION {[1..n -> StatusBytes] : n \in 0..MaxLineChars}

\* how the buffer ends
LineEndBytes(eol) ==
  CASE eol = "CRLF" -> <<"CR", "LF">>
    [] eol = "LF" -> <<"LF">>
    [] OTHER -> <<>>

\* the arms of the match in parse_status_line: reserved and unreserved
\* characters, `%`, space, `\r`, `\n`, and the ASCII alphanumerics
ByteAllowed(b) == b \in {"a", " ", "/", "%", "CR", "LF"}

\* parse_status_line: the first byte that matches no arm is an error
parse_status_line(buf) ==
  IF \A i \in 1..Len(buf) : ByteAllowed(buf[i])
    THEN "Ok" ELSE "StatusLineContainsInvalidBytes"

\* `start_line_string.strip_suffix("\r\n")`
HasCRLF(buf) ==
  Len(buf) >= 2 /\ buf[Len(buf) - 1] = "CR" /\ buf[Len(buf)] = "LF"

\* RequestHead::new up to `status_line.split(' ')`: the error it returns, or
\* "split" when the line goes on to be split
start_line(buf) ==
  IF buf = <<>> THEN "EofBeforeReadingAnyBytes"
  ELSE IF parse_status_line(buf) # "Ok" THEN parse_status_line(buf)
  ELSE IF ~HasCRLF(buf) THEN "StatusLineNoCRLF"
  ELSE "split"

NoStatusLine == [called |-> FALSE, text |-> <<>>, eol |-> "none", result |-> "none"]

StatusLineInit == sl = NoStatusLine

\* RequestHead::new reads the status line
StatusLineRead(text, eol) ==
  /\ ~sl.called
  /\ sl' = [called |-> TRUE, text |-> text, eol |-> eol,
            result |-> start_line(text \o LineEndBytes(eol))]
  /\ UNCHANGED slineRest

\* the next request
StatusLineDone ==
  /\ sl.called
  /\ sl' = NoStatusLine
  /\ UNCHANGED slineRest

StatusLineNext ==
  \/ ~sl.called /\ \E text \in StatusTexts, eol \in LineEnds : StatusLineRead(text, eol)
  \/ StatusLineDone

-----------------------------------------------------------------------------
(***************************************************************************)
(* The registry mutex (extras/websocket_app.rs, App::run)                  *)
(*                                                                         *)
(* The broadcast thread and the exec thread of App::run step by step, with *)
(* the Mutex around send_streams: who holds it, and where each thread is.  *)
(* lk.streams is the registry: per entry, whether the receiver of that     *)
(* sender is still there.                                                  *)
(***************************************************************************)

NoHolder == "none"

\* a MutexGuard goes out of scope: the mutex is free again
GuardKept(thread) == thread

GuardDropped(thread) == NoHolder

RegLockInit ==
  lk = [holder |-> NoHolder, bpc |-> "recv", apc |-> "recv", streams |-> <<>>,
        idx |-> 0, remove_idx |-> NoIdx, pending |-> 0, issued |-> 0, accepted |-> 0]

\* the application broadcasts
LkBroadcast ==
  /\ lk.issued < MaxMsgs + 1
  /\ lk' = [lk EXCEPT !.issued = @ + 1, !.pending = @ + 1]
  /\ UNCHANGED rlockRest

\* a session ends: the receiver of its sender is dropped
LkSessionEnds(i) ==
  /\ i \in 1..Len(lk.streams)
  /\ lk.streams[i]
  /\ lk' = [lk EXCEPT !.streams[i] = FALSE]
  /\ UNCHANGED rlockRest

\* broadcast thread: outgoing_broadcasts.recv_timeout returns a message
LkBroadcastRecv ==
  /\ lk.bpc = "recv"
  /\ lk.pending > 0
  /\ lk' = [lk EXCEPT !.pending = @ - 1, !.bpc = "lock fanout", !.remove_idx = NoIdx]
  /\ UNCHANGED rlockRest

\* broadcast thread: `let mut streams = streams.lock()` before the fan-out
LkFanoutLock ==
  /\ lk.bpc = "lock fanout"
  /\ lk.holder = NoHolder
  /\ lk' = [lk EXCEPT !.holder = "broadcast", !.bpc = "fanout", !.idx = 1]
  /\ UNCHANGED rlockRest

\* broadcast thread: one iteration of the fan-out loop, stream.send into an
\* unbounded channel
LkFanoutSend ==
  /\ lk.bpc = "fanout"
  /\ lk.idx <= Len(lk.streams)
  /\ lk' = [lk EXCEPT !.idx = @ + 1,
                      !.remove_idx = IF lk.streams[lk.idx] THEN @ ELSE lk.idx]
  /\ UNCHANGED rlockRest

\* broadcast thread: the loop is over and the match arm ends
LkFanoutUnlock ==
  /\ lk.bpc = "fanout"
  /\ lk.idx > Len(lk.streams)
  /\ lk' = [lk EXCEPT !.holder = GuardDropped("broadcast"),
                      !.bpc = IF lk.remove_idx = NoIdx THEN "recv" ELSE "lock remove"]
  /\ UNCHANGED rlockRest

\* broadcast thread: `let mut streams = streams.lock()` before the removal
LkRemoveLock ==
  /\ lk.bpc = "lock remove"
  /\ lk.holder = NoHolder
  /\ lk' = [lk EXCEPT !.holder = "broadcast", !.bpc = "remove"]
  /\ UNCHANGED rlockRest

\* broadcast thread: `if streams.len() > idx { streams.remove(idx); }`
LkRemove ==
  /\ lk.bpc = "remove"
  /\ lk' = [lk EXCEPT !.holder = GuardDropped("broadcast"), !.bpc = "recv",
                      !.streams = IF lk.remove_idx <= Len(@)
                                    THEN SubSeq(@, 1, lk.remove_idx - 1)
                                           \o SubSeq(@, lk.remove_idx + 1, Len(@))
                                    ELSE @]
  /\ UNCHANGED rlockRest

\* exec thread: incoming_streams.recv_timeout returns a stream
LkIncoming ==
  /\ lk.apc = "recv"
  /\ lk.accepted < MaxSessions
  /\ lk' = [lk EXCEPT !.apc = "lock push", !.accepted = @ + 1]
  /\ UNCHANGED rlockRest

\* exec thread: `self.state.send_streams.lock()`
LkPushLock ==
  /\ lk.apc = "lock push"
  /\ lk.holder = NoHolder
  /\ lk' = [lk EXCEPT !.holder = "exec", !.apc = "push"]
  /\ UNCHANGED rlockRest

\* exec thread: `.push(message_sender.clone())`, end of the statement
LkPush ==
  /\ lk.apc = "push"
  /\ lk' = [lk EXCEPT !.holder = GuardDropped("exec"), !.apc = "spawn",
                      !.streams = Append(@, TRUE)]
  /\ UNCHANGED rlockRest

\* exec thread: the session's thread is spawned
LkSpawn ==
  /\ lk.apc = "spawn"
  /\ lk' = [lk EXCEPT !.apc = "recv"]
  /\ UNCHANGED rlockRest

LkBroadcastThread ==
  \/ LkBroadcastRecv
  \/ LkFanoutLock
  \/ LkFanoutSend
  \/ LkFanoutUnlock
  \/ LkRemoveLock
  \/ LkRemove

LkExecThread ==
  \/ LkIncoming
  \/ LkPushLock
  \/ LkPush
  \/ LkSpawn

RegLockNext ==
  \/ LkBroadcast
  \/ \E i \in 1..MaxSessions : LkSessionEnds(i)
  \/ LkBroadcastThread
  \/ LkExecThread

-----------------------------------------------------------------------------
(***************************************************************************)
(* Specifications                                                          *)
(***************************************************************************)

\* Every subsystem starts as constructed.
Init == PoolInit /\ WsInit /\ HttpInit /\ HeadInit /\ RouterInit /\ HcInit /\ CtrInit /\ FindInit /\ HeadReadInit /\ RespInit /\ MsgInit /\ HeaderLineInit /\ StatusLineInit /\ RegLockInit /\ HeadLoopInit

PoolSpec == Init /\ [][PoolNext]_vars

\* The pool's threads are scheduled fairly: every worker, the recovery thread and the
\* owner's pending joins make progress when they can. Calling start, execute,
\* stop or drop is up to the application.
PoolFairness ==
  /\ \A i \in WorkerIds : WF_vars(WorkerStep(i))
  /\ WF_vars(SupervisorStep)
  /\ WF_vars(OwnerWait)

FairPoolSpec == PoolSpec /\ PoolFairness

WsSpec == Init /\ [][WsNext]_vars

WsBroadcastNext ==
  \/ ClientConnect
  \/ \E s \in Sessions : HandleBroadcast(s)
  \/ SenderBroadcast
  \/ AcceptorAccept
  \/ BroadcastFanout
  \/ BroadcastRemove
  \/ \E s \in Sessions :
       \/ ConnectHandler(s)
       \/ ReaderTimeout(s)
       \/ \E ok \in BOOLEAN : WriterStep(s, ok)
       \/ WriterTimeout(s, FALSE)
       \/ WriterJoined(s)

WsBroadcastSpec == Init /\ [][WsBroadcastNext]_vars

\* sessions whose handles application threads send on
WsSendNext ==
  \/ ClientConnect
  \/ AcceptorAccept
  \/ \E th \in SendThreads, s \in Sessions : ThreadSend(th, s)
  \/ \E s \in Sessions :
       \/ ConnectHandler(s)
       \/ ReaderTimeout(s)
       \/ \E ok \in BOOLEAN : WriterStep(s, ok)
       \/ WriterTimeout(s, FALSE)
       \/ WriterJoined(s)

WsSendSpec == Init /\ [][WsSendNext]_vars

\* sessions and the frames their peers send
WsReceiveNext ==
  \/ ClientConnect
  \/ AcceptorAccept
  \/ \E s \in Sessions, kind \in FrameKinds : ClientSend(s, kind)
  \/ \E s \in Sessions :
       \/ ConnectHandler(s)
       \/ ReaderRead(s)
       \/ ReaderTimeout(s)
       \/ WriterStep(s, TRUE)
       \/ WriterTimeout(s, FALSE)
       \/ WriterJoined(s)

WsReceiveSpec == Init /\ [][WsReceiveNext]_vars

\* application threads broadcasting to the sessions
WsOrderNext ==
  \/ ClientConnect
  \/ AcceptorAccept
  \/ \E th \in SendThreads : ThreadBroadcast(th)
  \/ BroadcastFanout
  \/ BroadcastRemove
  \/ \E s \in Sessions :
       \/ ConnectHandler(s)
       \/ ReaderTimeout(s)
       \/ \E ok \in BOOLEAN : WriterStep(s, ok)
       \/ WriterJoined(s)

WsOrderSpec == Init /\ [][WsOrderNext]_vars

\* handles used while their sessions run and after they ended
WsHandleNext ==
  \/ ClientConnect
  \/ AcceptorAccept
  \/ BroadcastFanout
  \/ BroadcastRemove
  \/ \E s \in Sessions :
       \/ HandleSend(s)
       \/ HandleBroadcast(s)
       \/ ConnectHandler(s)
       \/ ReaderTimeout(s)
       \/ \E ok \in BOOLEAN : WriterStep(s, ok)
       \/ WriterTimeout(s, FALSE)
       \/ WriterJoined(s)

WsHandleSpec == Init /\ [][WsHandleNext]_vars

\* sessions end while broadcasts are issued, or none is
WsCleanupNext ==
  \/ ClientConnect
  \/ AcceptorAccept
  \/ SenderBroadcast
  \/ BroadcastFanout
  \/ BroadcastTimeout
  \/ BroadcastRemove
  \/ \E s \in Sessions :
       \/ ConnectHandler(s)
       \/ ReaderTimeout(s)
       \/ WriterStep(s, TRUE)
       \/ \E ok \in BOOLEAN : WriterTimeout(s, ok)
       \/ WriterJoined(s)

WsCleanupSpec == Init /\ [][WsCleanupNext]_vars

\* the broadcast thread and the threads of every session keep running
WsCleanupFairness ==
  /\ WF_vars(AcceptorAccept)
  /\ WF_vars(BroadcastFanout \/ BroadcastTimeout \/ BroadcastRemove)
  /\ \A s \in Sessions :
       /\ WF_vars(ConnectHandler(s) \/ WriterJoined(s))
       /\ WF_vars(ReaderTimeout(s))
       /\ WF_vars(WriterStep(s, TRUE) \/ \E ok \in BOOLEAN : WriterTimeout(s, ok))

FairWsCleanupSpec == WsCleanupSpec /\ WsCleanupFairness

\* sessions sit idle or are sent messages while their peers accept the
\* writes or not
WsHeartbeatNext ==
  \/ ClientConnect
  \/ AcceptorAccept
  \/ \E s \in Sessions :
       \/ ConnectHandler(s)
       \/ HandleSend(s)
       \/ ReaderTimeout(s)
       \/ \E ok \in BOOLEAN : WriterStep(s, ok)
       \/ \E ok \in BOOLEAN : WriterTimeout(s, ok)
       \/ WriterJoined(s)

WsHeartbeatSpec == Init /\ [][WsHeartbeatNext]_vars

\* the threads of every session keep running; whether a write succeeds is
\* the peer's choice
WsHeartbeatFairness ==
  \A s \in Sessions :
    /\ WF_vars(ConnectHandler(s) \/ WriterJoined(s))
    /\ WF_vars(ReaderTimeout(s))
    /\ WF_vars(WriterStep(s, TRUE) \/ WriterTimeout(s, TRUE))

FairWsHeartbeatSpec == WsHeartbeatSpec /\ WsHeartbeatFairness

\* sessions come and go while the broker is told to shut down, by the signal
\* or by the server dropping the connect hook
WsShutdownNext ==
  \/ ClientConnect
  \/ ServerGone
  \/ AppShutdownSignal
  \/ AcceptorShutdown
  \/ AcceptorDisconnected
  \/ AcceptorAccept
  \/ AcceptorJoin
  \/ BroadcastShutdown
  \/ \E s \in Sessions :
       \/ ConnectHandler(s)
       \/ ReaderTimeout(s)
       \/ \E ok \in BOOLEAN : WriterTimeout(s, ok)
       \/ WriterJoined(s)

WsShutdownSpec == Init /\ [][WsShutdownNext]_vars

\* every thread of the broker keeps being scheduled; whether a write to a
\* peer succeeds is the peer's business
WsShutdownFairness ==
  /\ WF_vars(AcceptorShutdown \/ AcceptorDisconnected \/ AcceptorAccept \/ AcceptorJoin)
  /\ WF_vars(BroadcastShutdown)
  /\ \A s \in Sessions :
       /\ WF_vars(ConnectHandler(s) \/ WriterJoined(s))
       /\ WF_vars(ReaderTimeout(s))
       /\ WF_vars(\E ok \in BOOLEAN : WriterTimeout(s, ok))

FairWsShutdownSpec == WsShutdownSpec /\ WsShutdownFairness

HttpSpec == Init /\ [][HttpNext]_vars

\* Connections served while no shutdown is requested.
DriverNext ==
  \/ \E c \in Connectors : ConnectorStart(c) \/ Accept(c)
  \/ \E k \in ConnIds : ClientClose(k) \/ RequestStep(k)

DriverSpec == Init /\ [][DriverNext]_vars

\* Shutdown of connectors and of the server while the accepted connections
\* carry no request: a driver waits for a head until it times out.
CascadeNext ==
  \/ \E c \in Connectors : ConnectorStart(c) \/ Accept(c) \/ ConnectorShutdown(c)
  \/ \E c \in Connectors : ConnectorStep(c)
  \/ ServerShutdownBegin
  \/ ServerStep
  \/ \E k \in ConnIds : DriverBegin(k) \/ DriverStop(k) \/ HeadTimeout(k)

CascadeSpec == Init /\ [][CascadeNext]_vars

\* One connector, its connections and its shutdown.
GraceNext ==
  \/ ConnectorStart(1)
  \/ Accept(1)
  \/ ConnectorShutdown(1)
  \/ ConnectorStep(1)
  \/ \E k \in ConnIds : ClientClose(k) \/ DriverStep(k)

GraceSpec == Init /\ [][GraceNext]_vars

\* The connectors' own steps and the steps of server.shutdown() are taken
\* when they can be; nothing is assumed of clients and handlers.
HttpFairness ==
  /\ \A c \in Connectors : WF_vars(ConnectorStep(c))
  /\ WF_vars(ServerStep)

FairCascadeSpec == CascadeSpec /\ HttpFairness

HeadSpec == Init /\ [][HeadNext]_vars

HeadValuesSpec == Init /\ [][HeadValuesNext]_vars

RouterSpec == Init /\ [][RouterNext]_vars

HcSpec == Init /\ [][HcNext]_vars

CounterSpec == Init /\ [][CounterNext]_vars

FindSpec == Init /\ [][FindNext]_vars

HeadReadSpec == Init /\ [][HeadReadNext]_vars

RespSpec == Init /\ [][RespNext]_vars

MsgSpec == Init /\ [][MsgNext]_vars

HeaderLineSpec == Init /\ [][HeaderLineNext]_vars

StatusLineSpec == Init /\ [][StatusLineNext]_vars

RegLockSpec == Init /\ [][RegLockNext]_vars

\* both threads of App::run keep running
RegLockFairness == WF_vars(LkBroadcastThread) /\ WF_vars(LkExecThread)

FairRegLockSpec == RegLockSpec /\ RegLockFairness

MsgNonblockingSpec == Init /\ [][MsgNonblockingNext]_vars

HeadLoopSpec == Init /\ [][HeadLoopNext]_vars

\* the thread that called RequestHead::new keeps running
HeadLoopFairness == WF_vars(HeaderLoopRead)

FairHeadLoopSpec == HeadLoopSpec /\ HeadLoopFairness

-----------------------------------------------------------------------------
(***************************************************************************)
(* Thread pool: properties                                                 *)
(***************************************************************************)

AllLive == \A i \in WorkerIds : Live(i)
AllGone == \A i \in WorkerIds : Gone(i)
Running(t) == \E i \in WorkerIds : workers[i].st = "running" /\ workers[i].task.id = t
Queued(t) == \E k \in 1..Len(queue) : queue[k].id = t

\* C1: thread-pool resilience. While the pool is running (its task sender is
\* alive), a worker killed by a panicking task is replaced by a live worker
\* with the same id, the pool gets back to thread_count live workers, and
\* every enqueued task is taken and run, however many tasks panicked before.
PoolResilience ==
  /\ \A i \in WorkerIds :
       (workers[i].st = "panicked") ~> (Live(i) \/ tx = "dropped")
  /\ (tx = "open") ~> (AllLive \/ tx = "dropped")
  /\ \A t \in 1..MaxTasks : Queued(t) ~> (t \in executed \cup panicked)

\* C1 witness: two workers were replaced, the pool is back at full strength
\* and a task enqueued after the panicking ones has been executed.
PoolResilienceWitness ==
  /\ respawns >= 2
  /\ tx = "open"
  /\ AllLive
  /\ \E t \in executed : \A q \in panicked : q < t
  /\ Cardinality(panicked) >= 2

\* C7: thread-pool stop. Once stop() has dropped the sender and waits for the
\* recovery thread, every running task terminates, every worker leaves its
\* loop, the recovery thread is told to shut down and ends, and stop()
\* returns with started = FALSE.
PoolStopTerminates ==
  /\ (poolPc = "stopJoin") ~> (poolPc = "idle" /\ ~started /\ supervisor = "exited")
  /\ (poolPc = "stopJoin") ~> AllGone
  /\ \A t \in 1..MaxTasks : Running(t) ~> (t \in executed \cup panicked)
  /\ [](poolPc = "stopJoin" => tx = "dropped")

\* C7 witness: stop() has returned after workers finished the tasks that were
\* still queued, and every worker has left its loop.
PoolStopWitness ==
  /\ poolPc = "idle"
  /\ ~started
  /\ tx = "dropped"
  /\ supervisor = "exited"
  /\ \A i \in WorkerIds : workers[i].st = "exited"
  /\ Cardinality(executed) = MaxTasks

\* C8: thread-pool destructor. Dropping a started pool, stopped before or
\* not, returns, and when it has returned neither a worker nor the recovery
\* thread is still running.
PoolDropReturns ==
  (poolPc \in {"dropJoinSup", "dropJoinWorkers"})
    ~> (poolPc = "dropped" /\ supervisor # "running" /\ \A i \in WorkerIds : ~Live(i))

\* tasks that execute has accepted
AcceptedTasks == 1..(nextTask - 1)
\* how often task t sits in the channel
TimesQueued(t) == Cardinality({k \in 1..Len(queue) : queue[k].id = t})
\* the workers that hold task t
Holders(t) == {i \in WorkerIds : workers[i].task.id = t}
\* task t has been run: it returned or it panicked
Ran(t) == t \in executed \cup panicked

\* C39: task delivery. Every task accepted by execute on a started pool is in
\* exactly one place: once in the channel, or in the hands of exactly one
\* worker that runs it, or run; so it is dequeued by one worker and run at
\* most once, and a task that panicked is never in the channel or in a
\* worker's hands again, whoever replaces the dead worker. A worker leaves its
\* loop only when the channel is empty, and every task that is queued when
\* stop() has dropped the sender is run.
TaskDelivery ==
  /\ [](\A t \in AcceptedTasks :
          /\ TimesQueued(t) + Cardinality(Holders(t)) + (IF Ran(t) THEN 1 ELSE 0) = 1
          /\ \A i \in Holders(t) : workers[i].st = "running")
  /\ []((\E i \in WorkerIds : workers[i].st = "exited") => queue = <<>>)
  /\ [][\A t \in 1..MaxTasks : Ran(t) => (Ran(t))' /\ ~(Queued(t))' /\ (Holders(t))' = {}]_vars
  /\ [](\A t \in 1..MaxTasks : (tx = "dropped" /\ Queued(t)) => <>Ran(t))

\* C39 witness: stop() has dropped the sender while a task is still queued; a
\* task has panicked before, its worker was replaced, and a worker is running
\* a later task.
TaskDeliveryWitness ==
  /\ poolPc = "stopJoin"
  /\ tx = "dropped"
  /\ queue # <<>>
  /\ panicked # {}
  /\ respawns >= 1
  /\ \E i \in WorkerIds : workers[i].st = "running" /\ \A q \in panicked : q < workers[i].task.id

-----------------------------------------------------------------------------
(***************************************************************************)
(* WebSocket broker: properties                                            *)
(***************************************************************************)

\* copies of message m that session s holds: queued for its writer as
\* OutgoingMessage::Message, or written to its socket
Copies(s, m) == Count(outq[s], OutMessage(m)) + Count(sock[s], m)

\* A session whose exec() is running has its sender in the registry.
RunningRegistered == \A s \in Sessions : RxAlive(s) => s \in Range(registry)

\* Per fanned-out message and session: never more than one copy; exactly one
\* copy, equal to the message, for a target whose write loop is running (it
\* is queued or it has been written); none for a session that was no target.
DeliveredOnce ==
  \A m \in DOMAIN fanout : \A s \in Sessions :
    /\ Copies(s, m) <= 1
    /\ (s \in fanout[m] /\ swriter[s] = "loop") => Copies(s, m) = 1
    /\ s \notin fanout[m] => Copies(s, m) = 0

\* The step of the broadcast thread that takes a message off the broadcast
\* channel appends it, as OutgoingMessage::Message, once to the channel of
\* every registered session whose exec() is running, the issuer among them,
\* and to no other channel.
FanoutReachesAll ==
  (bpc = "recv" /\ bcastq # <<>> /\ bcastq' = Tail(bcastq)) =>
    LET m == Head(bcastq) IN
      /\ \A s \in Sessions :
           outq'[s] = IF s \in Range(registry) /\ RxAlive(s)
                        THEN Append(outq[s], OutMessage(m)) ELSE outq[s]
      /\ (m.from # NoSession /\ RxAlive(m.from)) =>
           outq'[m.from] = Append(outq[m.from], OutMessage(m))

\* C3: a message broadcast through a Handle or a BroadcastSender is enqueued
\* exactly once to every session registered at fan-out time whose exec() is
\* running, the issuing session included, and a session whose write loop
\* keeps running holds exactly that message, queued or written to its socket.
BroadcastDelivery ==
  /\ [](RunningRegistered /\ DeliveredOnce)
  /\ [][FanoutReachesAll]_vars

\* A broadcast issued by session 1 was fanned out to every session and each
\* of them has it on its socket.
BroadcastDeliveryWitness ==
  \E m \in DOMAIN fanout :
    /\ m.from = 1
    /\ fanout[m] = Sessions
    /\ \A s \in Sessions : Count(sock[s], m) = 1

-----------------------------------------------------------------------------
(***************************************************************************)
(* Server, connectors and connection drivers: properties                   *)
(***************************************************************************)

\* the requests of connection k that were answered, in the order of the answers
Answered(k) == [i \in 1..Len(conns[k].responses) |-> conns[k].responses[i].req]

\* Per connection: the responses answer the requests 1, 2, ... in that order,
\* one each; at most one request is in flight, and it is the latest one read;
\* between requests every request read so far has its response.
Serialized ==
  \A k \in ConnIds :
    /\ Answered(k) = [i \in 1..Len(conns[k].responses) |-> i]
    /\ conns[k].state \in InFlightStates => conns[k].read = Len(conns[k].responses) + 1
    /\ conns[k].state \in {"Idle", "ReadingHead"} => conns[k].read = Len(conns[k].responses)
    /\ conns[k].read <= Len(conns[k].responses) + 1

\* A step that starts on a request, or that reads its head, finds the
\* responses to all earlier requests flushed.
ReadsAfterFlush ==
  \A k \in ConnIds :
    (\/ conns'[k].read # conns[k].read
     \/ (conns'[k].state = "ReadingHead" /\ conns[k].state # "ReadingHead"))
      => Len(conns[k].responses) = conns[k].read

\* C2: within one connection requests are strictly serialized: N requests on
\* a kept-alive connection give N responses in request order, and response N
\* is flushed before request N+1 is read.
RequestsSerialized == [](Serialized) /\ [][ReadsAfterFlush]_vars

\* A kept-alive connection has answered as many requests as one connection
\* can carry, each with 200, and is idle again.
RequestsSerializedWitness ==
  \E k \in ConnIds :
    /\ conns[k].state = "Idle"
    /\ conns[k].read = MaxRequests
    /\ Len(conns[k].responses) = MaxRequests
    /\ \A i \in 1..MaxRequests : conns[k].responses[i] = [req |-> i, status |-> 200]

StartedConnectors == {c \in Connectors : connectors[c].st # "unstarted"}

Joined(c) == connectors[c].st = "stopped"

\* When join returns the accept loop has ended and the listening socket is
\* closed, so the address can be bound again; the wait never exceeds the
\* grace period.
StoppedReleased ==
  \A c \in Connectors :
    /\ Joined(c) => (~connectors[c].listening /\ IsMarkedForShutdown(c))
    /\ connectors[c].listening => connectors[c].st = "accepting"
    /\ connectors[c].waited <= CONNECTOR_SHUTDOWN_TIMEOUT

\* A connector that stops while drivers are still running has waited the
\* whole grace period and shuts every remaining stream down.
ForcedAfterGrace ==
  \A c \in Connectors :
    (connectors[c].st = "draining" /\ Joined(c)' /\ OpenConns(c) # {}) =>
      /\ connectors[c].waited = CONNECTOR_SHUTDOWN_TIMEOUT
      /\ \A k \in OpenConns(c) : conns'[k].stream # "open"

\* C5: after shutdown is requested join(None) and shutdown_and_join(None)
\* return; drivers are waited for at most CONNECTOR_SHUTDOWN_TIMEOUT, then the
\* remaining streams are shut down by force; on return the accept loop has
\* stopped and the listening socket is released.
ShutdownTerminates ==
  /\ \A c \in Connectors : IsMarkedForShutdown(c) ~> Joined(c)
  /\ [](StoppedReleased)
  /\ [][ForcedAfterGrace]_vars

\* A connector has stopped by shutting down by force the stream of a driver
\* that was still running when the grace period ended.
ShutdownTerminatesWitness ==
  \E c \in Connectors :
    /\ Joined(c)
    /\ ~connectors[c].listening
    /\ connectors[c].waited = CONNECTOR_SHUTDOWN_TIMEOUT
    /\ \E k \in ConnIds : conns[k].owner = c /\ conns[k].stream = "forced"

\* connections of a connector that is marked for shutdown
Stopping(k) == conns[k].owner # NoConnector /\ IsMarkedForShutdown(conns[k].owner)

\* The handler is not pre-empted: a step leaves Handling only by the
\* endpoint returning a response or an error.
HandlerRunsToEnd ==
  \A k \in ConnIds :
    conns[k].state = "Handling" => conns'[k].state \in {"Handling", "Writing", "Closing"}

\* Once its connector is marked a driver starts on no further request: it
\* does not go to ReadingHead, and it reads a head only if it was waiting for
\* it already.
NoFurtherRequest ==
  \A k \in ConnIds :
    Stopping(k) =>
      /\ ~(conns[k].state # "ReadingHead" /\ conns'[k].state = "ReadingHead")
      /\ conns[k].state # "ReadingHead" => conns'[k].read = conns[k].read

ResponseWrittenUnlessShut ==
  \A k \in ConnIds :
    (conns[k].caught /\ conns[k].state = "Closed" /\ conns[k].stream = "open") =>
      Len(conns[k].responses) = conns[k].read

-----------------------------------------------------------------------------
(***************************************************************************)
(* Request head: properties                                                *)
(***************************************************************************)

ImmutableHeaders == {"ContentLength", "TransferEncoding"}

\* A call of set_header, add_header or remove_header that names
\* Content-Length or Transfer-Encoding, in whatever case, returns the user
\* error for an immutable header and leaves headers and Accept list alone.
ImmutableCallRejected ==
  (lastCall'.op \in {"remove_header", "set_header", "add_header"}
     /\ to_header(lastCall'.name) \in ImmutableHeaders) =>
    /\ lastCall'.result.error =
         IF lastCall'.op = "remove_header" THEN "ImmutableRequestHeaderRemoved"
         ELSE "ImmutableRequestHeaderModified"
    /\ lastCall'.result.header = to_header(lastCall'.name)
    /\ head' = head

\* Whatever mutator is called with whatever name, the values the head holds
\* for Content-Length and Transfer-Encoding stay those that were parsed.
ImmutableValuesKept ==
  lastCall.op # "none" =>
    \A hdr \in ImmutableHeaders :
      HeadersGetAll(head'.headers, hdr) = HeadersGetAll(head.headers, hdr)

\* C9: Content-Length and Transfer-Encoding of a parsed head are immutable:
\* set_header, add_header and remove_header return a user error for them and
\* leave the head's headers and its Accept list as they were.
ImmutableHeadersKept == [][ImmutableCallRejected /\ ImmutableValuesKept]_vars

\* A mutator was called for Content-Length, spelled in lower case, on a head
\* that holds a Content-Length; it returned the user error.
ImmutableHeadersKeptWitness ==
  /\ lastCall.op = "set_header"
  /\ lastCall.name = "content-length"
  /\ lastCall.result.error = "ImmutableRequestHeaderModified"
  /\ HeadersGet(head.headers, "ContentLength") = "7"

-----------------------------------------------------------------------------
(***************************************************************************)
(* Router: properties                                                      *)
(***************************************************************************)

RECURSIVE AfterFilters(_, _)
\* the head after the given pre-routing filters ran on it, in order
AfterFilters(h, fs) ==
  IF fs = <<>> THEN h ELSE AfterFilters(ApplyFilter(Head(fs), h).head, Tail(fs))

Repeat(n, what) == [i \in 1..n |-> what]

\* the steps of a request that reaches its endpoint, in order
FullChain(rt) ==
  Repeat(Len(rt.pre), "pre_routing_filter") \o <<"route">>
    \o Repeat(rt.routeFilters, "route_filter") \o <<"endpoint">>
    \o Repeat(rt.responseFilters, "response_filter")

IsPrefix(s, t) == Len(s) <= Len(t) /\ SubSeq(t, 1, Len(s)) = s

\* what ran so far ran in the order of the chain, and a request answered by
\* its endpoint went through the whole chain
ChainInOrder ==
  /\ IsPrefix(ctx.trace, FullChain(router))
  /\ (ctx.phase = "Write" /\ ctx.status = 204) => ctx.trace = FullChain(router)

\* route selection saw the head as the pre-routing filters left it, and the
\* outcome is that of negotiating against that head
RoutedOnMutatedHead ==
  ctx.seen # NoHead =>
    LET mutated == AfterFilters(ctx.parsed, router.pre) IN
      /\ ctx.seen = mutated
      /\ Negotiate(router, mutated) # 0 => ctx.status = Negotiate(router, mutated)
      /\ Negotiate(router, mutated) = 0 => ctx.status \in {0, 204}

\* the routers of tc32 and tc33
Tc32Router == [NoRouter EXCEPT !.built = TRUE, !.pre = <<"set_accept">>, !.consumes = NoMime,
                               !.produces = "text/plain"]
Tc33Router == [NoRouter EXCEPT !.built = TRUE, !.pre = <<"set_content_type">>, !.consumes = "text/plain",
                               !.produces = NoMime]

\* tc32 and tc33: the request for / is answered 204 although the header it
\* was sent with does not fit the route; the request for /bla gets 406, 415
RewrittenHeaderRouted ==
  ctx.phase = "Write" =>
    /\ (router = Tc32Router /\ ctx.parsed.accept = <<"application/json">>) =>
         ctx.status = IF ctx.parsed.path = "/" THEN 204 ELSE 406
    /\ (router = Tc33Router
          /\ HeadersGet(ctx.parsed.headers, "ContentType") = "application/json") =>
         ctx.status = IF ctx.parsed.path = "/" THEN 204 ELSE 415

\* C10: pre-routing filters run first, route selection with its negotiation
\* then works on the request as those filters left it, then come the route's
\* filters, the endpoint and the response filters; an Accept or Content-Type
\* rewritten by a pre-routing filter is the one route selection sees.
FilterChainOrder == ChainInOrder /\ RoutedOnMutatedHead /\ RewrittenHeaderRouted

\* tc32's first request: sent with Accept application/json, rewritten to */*
\* by the pre-routing filter, routed to the endpoint and answered 204 after
\* the whole chain.
FilterChainOrderWitness ==
  /\ router = [Tc32Router EXCEPT !.routeFilters = 1, !.responseFilters = 1]
  /\ ctx.phase = "Write"
  /\ ctx.parsed.path = "/"
  /\ ctx.parsed.accept = <<"application/json">>
  /\ head.accept = <<"*/*">>
  /\ ctx.status = 204
  /\ ctx.trace = <<"pre_routing_filter", "route", "route_filter", "endpoint",
                   "response_filter">>

EndpointInvoked == \E i \in 1..Len(ctx.trace) : ctx.trace[i] = "endpoint"

\* C11: a request whose Content-Type the route does not consume is answered
\* 415, one whose Accept list holds nothing the route produces is answered
\* 406 (the consumes check coming first), and in neither case is the endpoint
\* invoked.
NegotiationGatesEndpoint ==
  ctx.seen # NoHead =>
    /\ ~Consumable(router, ctx.seen) =>
         ctx.status = 415 /\ ctx.phase = "Write" /\ ~EndpointInvoked
    /\ (Consumable(router, ctx.seen) /\ ~Producible(router, ctx.seen)) =>
         ctx.status = 406 /\ ctx.phase = "Write" /\ ~EndpointInvoked
    /\ EndpointInvoked => Negotiate(router, ctx.seen) = 0

\* tc33's second request: /bla sent with Content-Type application/json to a
\* route consuming text/plain is answered 415 without reaching the endpoint.
NegotiationGatesEndpointWitness ==
  /\ router = Tc33Router
  /\ ctx.phase = "Write"
  /\ ctx.parsed.path = "/bla"
  /\ HeadersGet(ctx.seen.headers, "ContentType") = "application/json"
  /\ ctx.status = 415
  /\ ctx.trace = <<"pre_routing_filter", "route">>

-----------------------------------------------------------------------------
(***************************************************************************)
(* handle_connection: properties                                           *)
(***************************************************************************)

\* handle_connection is at work on the stream, or has returned
Handling == hc.pc # "none"
\* handle_connection is done with the request: it returned, or waits for
\* the next request
Finished == hc.pc \in {"Idle", "Closed"}

EofClosesSilently ==
  (Handling /\ mock.request.empty) =>
    /\ hc.pc \in {"ReadingHead", "Closed"}
    /\ hc.calls = 0
    /\ mock.written = <<>>
    /\ hc.pc = "Closed" => hc.result = "EofBeforeReadingAnyBytes"

\* The client disconnected before sending a byte and handle_connection has
\* returned.
EofClosesSilentlyWitness ==
  /\ hc.pc = "Closed"
  /\ mock.request = EofRequest
  /\ hc.result = "EofBeforeReadingAnyBytes"
  /\ hc.parsed.linesRead = 0

\* the status line holds method and target only
NoVersionField(rq) == ~rq.empty /\ rq.eol = "CRLF" /\ Len(rq.tokens) = 2

Flushed == Finished /\ hc.calls > 0

\* C15: once the response is flushed the connection is Idle if and only if
\* it is keep-alive, HTTP/1.1 being keep-alive unless the request carries
\* Connection: close and HTTP/1.0 only if it carries Connection: keep-alive;
\* otherwise the connection is Closed.
KeepAliveDecision ==
  Flushed => (hc.pc = "Idle" <=> KeepAliveByDefault(hc.parsed))

Written(line) == \E i \in 1..Len(mock.written) : mock.written[i] = line

\* C16 as stated: every response written on a connection that is not kept
\* alive carries Connection: Close, for HTTP/1.0 as for HTTP/1.1.
CloseAnnounced ==
  (Flushed /\ hc.pc = "Closed" /\ hc.parsed.version \in {"HTTP/1.0", "HTTP/1.1"}) =>
    Written("Connection: Close")

\* C16 (amended): every response to an HTTP/1.1 request written on a
\* connection that is not kept alive carries Connection: Close; the response
\* to an HTTP/1.0 request on such a connection carries no Connection header.
CloseAnnouncedHttp11 ==
  (Flushed /\ hc.pc = "Closed") =>
    /\ hc.parsed.version = "HTTP/1.1" =>
         mock.written = <<"HTTP/1.1 200 OK", "Connection: Close", "Content-Length: 5", "",
                          "Okay!">>
    /\ hc.parsed.version = "HTTP/1.0" =>
         mock.written = <<"HTTP/1.0 200 OK", "Content-Length: 5", "", "Okay!">>

\* tc17: an HTTP/1.1 request without Connection header was answered and the
\* connection closed; Connection: Close was written.
CloseAnnouncedHttp11Witness ==
  /\ hc.pc = "Closed"
  /\ hc.calls = 1
  /\ mock.request.tokens = <<"GET", "/dummy", "HTTP/1.1">>
  /\ hc.parsed.head.headers = <<>>
  /\ Written("Connection: Close")

\* the status a parse error is to be answered with
StatusLineFor(e) ==
  IF e = "HttpVersionNotSupported" THEN "HTTP/1.1 505 HTTP Version Not Supported"
  ELSE "HTTP/1.1 400 Bad Request"

\* C17: when reading the head fails with a parse error after at least one
\* byte was read, the driver writes a status response (505 for an
\* unsupported version, otherwise 400) and then closes the connection.
ParseErrorsAnswered ==
  (hc.pc = "Closed" /\ hc.parsed.error # NoError /\ ~mock.request.empty) =>
    /\ mock.written # <<>>
    /\ mock.written[1] = StatusLineFor(hc.parsed.error)

-----------------------------------------------------------------------------
(***************************************************************************)
(* Id counter: properties                                                  *)
(***************************************************************************)

\* C18: in both builds the values counter::next() returns are strictly
\* increasing within the process: a call that starts after another call
\* returned gets a larger value, and calls racing on several threads never
\* get the same value.
StrictlyIncreasingIds ==
  \A t \in Callers :
    callers[t].pc = "ret" =>
      /\ \A v \in callers[t].before : Less128(v, callers[t].val)
      /\ callers[t].val \notin ctr.returned
      /\ \A u \in Callers \ {t} : callers[u].pc = "ret" => callers[u].val # callers[t].val

\* Two threads hold the results of racing calls while an earlier call has
\* returned already, and every call allowed has been made.
StrictlyIncreasingIdsWitness ==
  /\ ctr.started = MaxCalls
  /\ ctr.returned # {}
  /\ \E t, u \in Callers :
       /\ t # u
       /\ callers[t].pc = "ret" /\ callers[u].pc = "ret"
       /\ callers[t].before = {} /\ callers[u].before # {}

-----------------------------------------------------------------------------
(***************************************************************************)
(* WebSocket sessions: order of the messages of one session                *)
(***************************************************************************)

IsText(m) == m.t = "text"

IsTextOut(o) == o.kind = "Message" /\ IsText(o.msg)

\* the texts written to the socket of session s, in the order of the writes
WrittenTexts(s) == SelectSeq(sock[s], IsText)

\* the texts waiting in the channel of session s, in the order of the channel
QueuedTexts(s) ==
  LET q == SelectSeq(outq[s], IsTextOut) IN [i \in 1..Len(q) |-> q[i].msg]

\* the write loop of session s holds the receiver and has not broken out
SessionAlive(s) == swriter[s] \in {"connect", "loop"}

\* C19: the messages sent on the handles of one session are written to its
\* socket in the order the channel took them, which is the order the write
\* loop dequeues them: the sends of one thread keep their order, the sends of
\* several threads are serialized, and while the session is alive every
\* message the channel took is either written or still waiting, once.
OutgoingInOrder ==
  \A s \in Sessions :
    /\ IsPrefix(WrittenTexts(s), enq[s])
    /\ SessionAlive(s) => WrittenTexts(s) \o QueuedTexts(s) = enq[s]
    /\ \A i, j \in 1..Len(WrittenTexts(s)) :
         (i < j /\ WrittenTexts(s)[i].from = WrittenTexts(s)[j].from)
           => WrittenTexts(s)[i].id < WrittenTexts(s)[j].id

\* Two threads sent on handles of the same session, and the write loop, still
\* running, wrote both messages.
OutgoingInOrderWitness ==
  \E s \in Sessions :
    /\ SessionAlive(s)
    /\ Len(WrittenTexts(s)) = 2
    /\ WrittenTexts(s)[1].from # WrittenTexts(s)[2].from
    /\ sent["t1"] > 0 /\ sent["t2"] > 0

\* C20: message_handler is invoked for the messages of a session in the order
\* they arrived on the network, once each, and a read that times out because
\* the peer was silent for a heartbeat interval leaves the read thread
\* reading.
IncomingInOrder ==
  [][\A s \in Sessions :
       /\ \A i, j \in 1..Len(handled'[s]) : i < j => handled'[s][i] < handled'[s][j]
       /\ (sreader[s] = "reading" /\ netIn[s] = <<>>) => sreader'[s] = "reading"]_vars

\* the broadcasts session s received: written to its socket or still waiting
\* in its channel
Observed(s) == WrittenTexts(s) \o QueuedTexts(s)

\* C21: broadcasts reach every session in the order they entered the
\* broadcast channel: a session that got two of them got the one enqueued
\* first before the other.
BroadcastsInOrder ==
  \A s \in Sessions :
    \A i, j \in 1..Len(Observed(s)) : i < j => Observed(s)[i].id < Observed(s)[j].id

\* Two sessions have each written two broadcasts to their sockets.
BroadcastsInOrderWitness ==
  \E s, t \in Sessions :
    /\ s # t
    /\ Len(WrittenTexts(s)) = 2
    /\ Len(WrittenTexts(t)) = 2

\* App::run has joined the exec thread and the broadcast thread and returns
RunReturned == accPc = "done" /\ bpc = "done"

\* C22: once the exec thread has left its loop, on the shutdown signal or on
\* the closed incoming queue, App::run returns, and when it returns every
\* per-session thread has ended and the broadcast loop has exited.
BrokerShutdownReturns ==
  /\ [](RunReturned => \A s \in Sessions : swriter[s] \in {"none", "done"})
  /\ (accPc = "joining") ~> RunReturned

\* the messages waiting in the channel of session s, of either kind
Buffered(s) == {outq[s][k].msg : k \in 1..Len(outq[s])}

\* C23: a call of send or of broadcast on the handle of a session that has
\* ended returns and delivers nothing: its message is in no session's
\* channel, on no socket and not in the broadcast channel, and the ended
\* session's channel holds nothing.
RetainedHandleInert ==
  /\ \A s \in Sessions : Ended(s) => outq[s] = <<>>
  /\ \A m \in late :
       /\ m \notin Range(bcastq)
       /\ m \notin DOMAIN fanout
       /\ \A s \in Sessions : m \notin Range(sock[s]) /\ m \notin Buffered(s)

\* A handle of an ended session was used while another session is running
\* its write loop and the broadcast thread is receiving.
RetainedHandleInertWitness ==
  /\ late # {}
  /\ bpc = "recv"
  /\ \E s \in Sessions : swriter[s] = "loop"

\* the next thing the reader of session s gets is the peer's Close or a
\* failing read
ReaderAtEnd(s) ==
  sreader[s] = "reading" /\ netIn[s] # <<>> /\ Head(netIn[s]).t \in {"close", "err"}

\* C27: when the reader of a session gets a Close or a read error it invokes
\* disconnect_handler, once, and exits; disconnect_handler is never invoked
\* for a session whose connect_handler has not returned.
ReaderTermination ==
  /\ [](\A s \in Sessions :
          /\ disconnects[s] <= 1
          /\ disconnects[s] > 0 => swriter[s] \notin {"none", "connect"})
  /\ [][\A s \in Sessions :
          (ReaderAtEnd(s) /\ sreader'[s] # "reading")
            => (sreader'[s] = "done" /\ disconnects'[s] = disconnects[s] + 1)]_vars

\* C28: the broadcast thread drops from the registry a sender whose send
\* failed, at most one per broadcast, and the sender of every ended session
\* is removed in the end, whether further broadcasts are issued or not.
RegistryCleanup ==
  /\ [][Len(registry') >= Len(registry) - 1]_vars
  /\ \A s \in Sessions : (Ended(s) /\ s \in Range(registry)) ~> (s \notin Range(registry))

\* C29: a session whose writer is in its loop and whose outbound channel is
\* idle is sent a ping; a ping is written only by such a writer; once a write
\* to the socket (a ping or a message) has failed the writer is out of its
\* loop, writes nothing more, and the session's receiver is released.
WriterIdle(s) == swriter[s] = "loop" /\ outq[s] = <<>>

RemovesOnlyFailed ==
  [][Len(registry') < Len(registry)
       => \E k \in 1..Len(registry) :
            /\ registry' = SubSeq(registry, 1, k - 1) \o SubSeq(registry, k + 1, Len(registry))
            /\ ~RxAlive(registry[k])
            /\ \E m \in DOMAIN fanout : registry[k] \notin fanout[m]]_vars

\* an ended session has been removed while a session that no broadcast has
\* reached yet is registered and alive
RemovesOnlyFailedWitness ==
  /\ bpc = "recv"
  /\ \E t \in Sessions : Ended(t) /\ t \notin Range(registry)
  /\ \E s \in Range(registry) :
       RxAlive(s) /\ \A m \in DOMAIN fanout : s \notin fanout[m]

-----------------------------------------------------------------------------
(***************************************************************************)
(* Static-file lookup: properties                                          *)
(***************************************************************************)

\* C24: try_find_path returns None for every request path whose decoded
\* form contains ".." or ":", and a file it locates lies in the served
\* directory, never above it.
TraversalRejected ==
  found.called =>
    /\ (percent_decode(found.path) # NoPath
          /\ (ContainsDotDot(percent_decode(found.path))
                \/ ContainsColon(percent_decode(found.path))))
         => found.result = NoneFound
    /\ found.result.kind = "File" => found.result.at.up = 0

\* The path %2e%2e/a, which decodes to ../a, the file next to the served
\* directory, was looked up.
TraversalRejectedWitness ==
  /\ found.called
  /\ found.path = <<"%2e", "%2e", "/">>
  /\ found.result = NoneFound

-----------------------------------------------------------------------------
(***************************************************************************)
(* Reading a head: properties                                              *)
(***************************************************************************)

\* C25: the bytes buffered for a request head never exceed the configured
\* limit, and a client whose head is longer than the limit is answered 413
\* and the connection closed.
BoundedHeadRead ==
  /\ rd.buf + rd.kept <= rd.limit
  /\ (rd.pc = "Closed" /\ SumLen(rd.lines) > rd.limit) => rd.written = "413"

-----------------------------------------------------------------------------
(***************************************************************************)
(* Response headers: properties                                            *)
(***************************************************************************)

\* C26: a written response carries its headers in the order they were
\* inserted, a header inserted several times as as many lines in that
\* order, and behind them the headers the core adds.
HeadersInInsertionOrder ==
  resp.pc = "written" =>
    resp.out = <<"HTTP/1.1 200 OK">> \o SerializeHeaders(resp.inserted) \o CoreHeaders

-----------------------------------------------------------------------------
(***************************************************************************)
(* Reading a WebSocket message: properties                                 *)
(***************************************************************************)

IsRead(e, opcode) == e.ev = "read" /\ e.frame.opcode = opcode
IsPongWrite(e) == e.ev \in {"write", "write failed"} /\ e.frame.opcode = "Pong"

\* the data frames read since the current call started
RECURSIVE DataRead(_, _)
DataRead(trace, from) ==
  IF from > Len(trace) THEN <<>>
  ELSE (IF trace[from].ev = "read" /\ trace[from].frame.opcode \in {"Text", "Continuation"}
          THEN <<trace[from].frame>> ELSE <<>>) \o DataRead(trace, from + 1)

IsCloseWrite(e) == e.ev \in {"write", "write failed"} /\ e.frame.opcode = "Close"

\* C31: every Close read from the stream is followed at once by the write of
\* one Close with the same payload, and nothing else is written for it; the
\* call that read it returns ConnectionClosed when the echo was written and
\* WriteError when it was not, never a message, whatever fragments it had
\* collected.
CloseEchoed ==
  /\ \A i \in 1..Len(mstream.trace) :
       /\ IsRead(mstream.trace[i], "Close")
            => /\ i < Len(mstream.trace)
               /\ IsCloseWrite(mstream.trace[i + 1])
               /\ mstream.trace[i + 1].frame.payload = mstream.trace[i].frame.payload
               /\ i + 1 = Len(mstream.trace) \/ mstream.trace[i + 2].ev = "read"
       /\ IsCloseWrite(mstream.trace[i])
            => /\ i > 1
               /\ IsRead(mstream.trace[i - 1], "Close")
  /\ LET n == Len(mstream.trace) IN
       (n > mstream.callStart /\ IsCloseWrite(mstream.trace[n]))
         => /\ mstream.pc = "returned"
            /\ mstream.result = MsgErr(IF mstream.trace[n].ev = "write"
                                         THEN "ConnectionClosed" ELSE "WriteError")

\* a Close arrived after the first fragment of a message and was echoed
CloseEchoedWitness ==
  /\ mstream.result = MsgErr("ConnectionClosed")
  /\ mstream.frames # <<>>
  /\ mstream.trace[Len(mstream.trace)] = WriteEv(Frame("Close", TRUE, <<"z">>), TRUE)

\* the echo of a Close could not be written
CloseEchoFailedWitness ==
  /\ mstream.result = MsgErr("WriteError")
  /\ mstream.trace # <<>>
  /\ mstream.trace[Len(mstream.trace)] = WriteEv(Frame("Close", TRUE, <<"z">>), FALSE)


IsData(f) == f.opcode \in {"Text", "Continuation"}

\* the messages a sequence of frames carries: its data frames, cut after
\* every frame with the fin bit; open is the message not yet complete
RECURSIVE MessagesIn(_, _)
MessagesIn(frames, open) ==
  IF frames = <<>> THEN <<>>
  ELSE LET f == Head(frames) IN
         IF ~IsData(f) THEN MessagesIn(Tail(frames), open)
         ELSE IF f.fin
           THEN <<MsgOk(Concatenate(Append(open, f)), Append(open, f)[1].opcode = "Text")>>
                  \o MessagesIn(Tail(frames), <<>>)
           ELSE MessagesIn(Tail(frames), Append(open, f))

\* C33: over a sequence of nonblocking reads the messages returned are the
\* messages the peer has sent in the frames read so far, in order.
NonblockingLosesNothing ==
  mstream.returned = MessagesIn(FramesRead(mstream.trace), <<>>)


-----------------------------------------------------------------------------
(***************************************************************************)
(* Request head: the values it holds                                       *)
(***************************************************************************)

\* C35: every header value a request head holds is non-empty, after parsing
\* and after every call of set_header, add_header, remove_header and
\* set_accept.
HeaderValuesNonEmpty ==
  \A i \in 1..Len(head.headers) : head.headers[i].value # EmptyValue

-----------------------------------------------------------------------------
(***************************************************************************)
(* One header line: properties                                             *)
(***************************************************************************)

\* the name and the value of a line as the header grammar has them: what is
\* before and what is after the first colon, trimmed
Colons(text) == {i \in 1..Len(text) : text[i] = ":"}
FirstColon(text) == CHOOSE i \in Colons(text) : \A j \in Colons(text) : i <= j
NameOf(text) == trim(SubSeq(text, 1, FirstColon(text) - 1))
ValueOf(text) == trim(SubSeq(text, FirstColon(text) + 1, Len(text)))

\* C34: a line with a colon, a non-empty name and a non-empty trimmed value
\* is stored with the trimmed value, with or without a space after the
\* colon; a line without a colon fails HeaderValueMissing, an empty name
\* HeaderNameEmpty, an empty trimmed value HeaderValueEmpty; the empty CRLF
\* line ends the headers.
HeaderLineParsing ==
  (hl.called /\ hl.eol = "CRLF")
    => IF hl.text = <<>> THEN hl.result = LineEnd
       ELSE IF Colons(hl.text) = {}
         THEN hl.result \in {LineErr("HeaderValueMissing"), LineErr("HeaderNameEmpty")}
       ELSE IF NameOf(hl.text) = <<>> THEN hl.result = LineErr("HeaderNameEmpty")
       ELSE IF ValueOf(hl.text) = <<>> THEN hl.result = LineErr("HeaderValueEmpty")
       ELSE hl.result = LineAdd(NameOf(hl.text), ValueOf(hl.text))


-----------------------------------------------------------------------------
(***************************************************************************)
(* The header loop on a stream that ends: properties                       *)
(***************************************************************************)

\* the stream ends before the empty CRLF line that ends the headers
EndsBeforeEmptyLine(stream) ==
  \A k \in 1..Len(stream.lines) : stream.lines[k] # Chunk(<<>>, "CRLF", TRUE)

\* a complete line that is a header: valid UTF-8, ended by CRLF, a name and
\* a value around ": "
IsHeader(line) ==
  /\ line.utf8
  /\ line.eol = "CRLF"
  /\ header_line(line.text, "CRLF").kind = "add"

\* the error a complete line that is not a header is rejected with: the
\* checks in the order of the loop body
LoopErrorOf(line) ==
  IF ~line.utf8 THEN "HeaderLineIsNotUsAscii"
  ELSE IF line.eol # "CRLF" THEN "HeaderLineNoCRLF"
  ELSE header_line(line.text, "CRLF").error

HeaderErrors ==
  {"HeaderLineIsNotUsAscii", "HeaderLineNoCRLF", "HeaderNameEmpty", "HeaderValueMissing",
   "HeaderValueEmpty"}

\* the call has returned for a stream that ended before the empty line
ReturnedAtEof == hloop.pc = "returned" /\ EndsBeforeEmptyLine(hloop.stream)

\* C40 as stated: head parsing terminates on every finite input; if the
\* stream reaches end-of-file after the status line but before the empty CRLF
\* line that ends the headers, RequestHead::new returns the error
\* HeaderLineNoCRLF and no head.
EofIsHeaderNoCRLF ==
  ReturnedAtEof => ~hloop.head /\ hloop.error = "HeaderLineNoCRLF"

\* C40, amended: the header loop terminates on every finite input, after at
\* most one read per line and one at the end of the stream. If the stream
\* ends before the empty CRLF line, RequestHead::new returns an error and no
\* head: when every complete line is a header, the error is HeaderLineNoCRLF
\* if what is left of the stream is valid UTF-8 and HeaderLineIsNotUsAscii
\* if it is not; otherwise it is the error of the first line that is not a
\* header.
HeadParsingTerminates ==
  /\ [](hloop.pc = "loop" => <>(hloop.pc = "returned"))
  /\ [](hloop.pos <= Len(hloop.stream.lines) + 1)
  /\ [](ReturnedAtEof =>
          /\ ~hloop.head
          /\ hloop.error \in HeaderErrors
          /\ (\A k \in 1..Len(hloop.stream.lines) : IsHeader(hloop.stream.lines[k])) =>
               /\ hloop.pos = Len(hloop.stream.lines) + 1
               /\ hloop.error = IF hloop.stream.tail.utf8 THEN "HeaderLineNoCRLF"
                                 ELSE "HeaderLineIsNotUsAscii"
          /\ \A k \in 1..Len(hloop.stream.lines) :
               (~IsHeader(hloop.stream.lines[k])
                  /\ \A j \in 1..(k - 1) : IsHeader(hloop.stream.lines[j])) =>
                 /\ hloop.pos = k
                 /\ hloop.error = LoopErrorOf(hloop.stream.lines[k]))

\* C40 witness: a header line was added, then the stream ended in the middle
\* of the next line, and the call returned HeaderLineNoCRLF.
HeadParsingTerminatesWitness ==
  /\ ReturnedAtEof
  /\ Len(hloop.stream.lines) = 1
  /\ Len(hloop.headers) = 1
  /\ hloop.stream.tail = Chunk(<<"a">>, "none", TRUE)
  /\ hloop.pos = 2
  /\ hloop.error = "HeaderLineNoCRLF"
  /\ ~hloop.head

-----------------------------------------------------------------------------
(***************************************************************************)
(* The status line: properties                                             *)
(***************************************************************************)

\* the bytes the status line may hold before its terminating CRLF
InStatusLine(b) == b \in {"a", " ", "/", "%"}

\* C36: the status line goes on to be split only if every byte before the
\* terminating CRLF is an alphanumeric, a reserved or unreserved character,
\* `%` or space; with any other byte, a CR that is not part of the final
\* CRLF included, the error is StatusLineContainsInvalidBytes.
BeforeLineEnd(buf) ==
  IF HasCRLF(buf) THEN SubSeq(buf, 1, Len(buf) - 2)
  ELSE IF buf # <<>> /\ buf[Len(buf)] = "LF" THEN SubSeq(buf, 1, Len(buf) - 1)
  ELSE buf

StatusLineValidated ==
  LET body == BeforeLineEnd(sl.text \o LineEndBytes(sl.eol)) IN
    (sl.called /\ \E i \in 1..Len(body) : ~InStatusLine(body[i]))
      => sl.result = "StatusLineContainsInvalidBytes"


-----------------------------------------------------------------------------
(***************************************************************************)
(* The registry mutex: properties                                          *)
(***************************************************************************)

\* C37: the registry mutex is held by the broadcast thread only during the
\* fan-out loop and the removal of one entry, by the exec thread only for
\* the push of one entry; no thread holds it in a channel receive; and
\* whoever holds it releases it, so neither thread waits for it for ever.
RegistryLocking ==
  /\ [](/\ lk.holder = "broadcast" <=> lk.bpc \in {"fanout", "remove"}
        /\ lk.holder = "exec" <=> lk.apc = "push"
        /\ lk.bpc = "recv" => lk.holder # "broadcast"
        /\ lk.apc \in {"recv", "spawn"} => lk.holder # "exec")
  /\ [](lk.holder # NoHolder => <>(lk.holder = NoHolder))

\* the exec thread waits for the mutex while the broadcast thread fans out
RegistryLockingWitness ==
  /\ lk.holder = "broadcast"
  /\ lk.bpc = "fanout"
  /\ lk.apc = "lock push"
  /\ lk.streams # <<>>

=============================================================================
